---- MODULE Spec2Model ----
(***************************************************************************)
(* A model of the per-session dialogue pipeline of xiaozhi-esp32-server:   *)
(* the conversation memory store (PGMemory behind the add_message work     *)
(* pool), the sentence-level TTS sender, the LLM/TTS/tool-call graph and   *)
(* the inbound audio pipe.  Each subsystem has its own variables and its   *)
(* own specification; a subsystem's actions leave the others unchanged.    *)
(***************************************************************************)
EXTENDS Integers, Sequences, FiniteSets, TLC

VARIABLES
    \* ---- conversation memory (pg_memory + add_message work pool) ----
    published,      \* number of add_message events published so far
    jobQueue,       \* the work pool's job queue: AddMessageJob records
    worker,         \* worker -> its position inside the job handler
    sessionRows,    \* conversation_sessions: the session_id values present
    messageRows,    \* conversation_messages, in insertion order
    \* ---- sentence-level TTS (TTSManager) ----
    frameDuration,  \* OutputAudioFormat.FrameDuration, in ms
    now,            \* the clock, in ms
    ctxCancelled,   \* the run context of the queued sentences is cancelled
    ttsPushed,      \* number of sentences pushed to the TTS queue so far
    ttsQueue,       \* TTSManager.ttsQueue: the sentences waiting
    tts,            \* the queue consumer: position in processTTSQueue/handleTts/SendTTSAudio
    audioChan,      \* the provider's output channel of the current sentence
    flowControlChan,\* SendTTSAudio's channel to processFlowControl
    metaAudioChan,  \* SendTTSAudio's channel to SendAudioToMetaHuman
    flowControl,    \* the processFlowControl goroutine of the current sentence
    metaHuman,      \* the SendAudioToMetaHuman goroutine of the current sentence
    sentence,       \* per sentence: what SendTTSAudio received and what handleTts returned
    clientLog,      \* everything written to the client transport, in order
    \* ---- one run of the LLM/TTS/tool-call graph (ChatSession) ----
    graph,          \* the run: the node about to execute and what flows into it
    history,        \* graphState.history
    llmInputs,      \* the input of every LLM invocation of the run, in order
    llmOutputs,     \* the aggregated assistant message of every LLM invocation
    toolResults,    \* the output of every execution of the ToolCallResult node
    graphLog,       \* the tts markers written to the client by the callbacks
    \* ---- the inbound audio pipe (RecvAudio, ProcessVadAudio) ----
    scenario,       \* the input drawn: "burst" (a long run of silent frames) or "speech"
    inFrameDuration,\* InputAudioFormat.FrameDuration, in ms
    listenMode,     \* ClientState.ListenMode
    audioNow,       \* the clock of the audio pipe, in ms
    pushed,         \* number of RecvAudio calls so far
    allVoiced,      \* every frame given to RecvAudio so far was voiced
    recvResult,     \* what the last RecvAudio call returned
    opusAudioBuffer,\* ClientState.OpusAudioBuffer, the channel of opus frames
    accepted,       \* number of frames RecvAudio queued
    dequeued,       \* number of frames the decode activity took, and the last one's id
    vad,            \* the decode activity's state and ClientState.VoiceStatus
    asrSent,        \* the frames sent to AsrAudioChannel, in order
    utterance,      \* the frames of the utterance: the flushed buffer, then every frame decoded
    \* ---- text messages of the session (listen, abort) and the replies ----
    chatScenario,   \* the input drawn: "dialogue" (providers work) or "faults"
    enableGreeting, \* configuration: enable_greeting
    clientMsgs,     \* the listen and abort messages handled so far
    runs,           \* the HandleLLMResponse goroutines startChat has started
    chatLog,        \* the messages passed to SendMsg, in order
    chatMemory,     \* llm_memory: the messages appended with AddMessage
    llmRequests,    \* the requests handed to llm.HandleLLMWithContext
    \* ---- calls of the session's functions that depend on their arguments only ----
    fnCall,         \* the call: the function and its arguments
    fnResult,       \* what the call returned, once it has returned
    \* ---- the audio collector of the session (AudioCollector) ----
    audioData,      \* userAudioData and ttsAudioData: the bytes collected, per side
    bytesAdded,     \* number of bytes handed to AddUserAudio/AddTTSAudio so far
    saveCalls,      \* the SaveUserAudio/SaveTTSAudio calls: what each took, and its position
    saveEvents,     \* the save_audio events published, in order
    collectorLog,   \* the calls that took the collector's mutex, in the order they took it
    \* ---- the session manager (ChatManager) and what runs under its context ----
    ctxDone,        \* per context: it is cancelled
    activity,       \* per activity started under one of the contexts: its position
    sessionResources,\* the session-level resources: "open" or "closed"
    closeLog,       \* the Close and OnClose calls made so far, in order
    \* ---- the pool of VAD instances (VADResourcePool) ----
    poolInitialized,\* VADResourcePool.initialized
    availableVADs,  \* the channel of available instances, oldest first
    allocatedVADs,  \* the keys of the map of allocated instances
    closedVADs,     \* the instances ReleaseVAD has closed
    acquirer,      \* per session: its call of AcquireVAD or ReleaseVAD, and the instance it has
    \* ---- a handleTextResponse call that may wait for its sentence (TTSManager) ----
    syncCall,      \* the call: its arguments, its position and what it returned
    \* ---- the stream post-handler of the LLM node and the pipe it fills ----
    llmStream,      \* the deltas of the LLM stream not yet received by the post-handler
    outputPipe,     \* the pipe made by schema.Pipe: what it holds and whether its writer is closed
    postHandler,    \* the post-handler: its position, the delta in hand, the deltas received
    downstreamRead, \* the deltas the next node has read from the returned reader
    pipeCtxDone,   \* the run context is cancelled
    \* ---- VADResourcePool.Resize: the pool's size and the Resize calls ----
    maxSize,        \* VADResourcePool.maxSize
    created,        \* number of instances CreateVAD has made so far
    resizer,        \* the Resize call: its argument, its position, what is left of its loop
    resized,       \* the argument of the last Resize call that returned nil (0: none)
    \* ---- the end of the decode activity of ProcessVadAudio ----
    opusClosed,     \* OpusAudioBuffer is closed
    sessionCtxDone, \* the session context (state.Ctx) is cancelled
    decodeLoop      \* the decode activity: running or returned

memVars == <<published, jobQueue, worker, sessionRows, messageRows>>

ttsVars == <<frameDuration, now, ctxCancelled, ttsPushed, ttsQueue, tts, audioChan,
             flowControlChan, metaAudioChan, flowControl, metaHuman, sentence, clientLog>>

graphVars == <<graph, history, llmInputs, llmOutputs, toolResults, graphLog>>

audioVars == <<scenario, inFrameDuration, listenMode, audioNow, pushed, allVoiced, recvResult,
               opusAudioBuffer, accepted, dequeued, vad, asrSent, utterance>>

chatVars == <<chatScenario, enableGreeting, clientMsgs, runs, chatLog, chatMemory, llmRequests>>

callVars == <<fnCall, fnResult>>

collectorVars == <<audioData, bytesAdded, saveCalls, saveEvents, collectorLog>>

\* The parts of the session added to the five above.
managerVars == <<ctxDone, activity, sessionResources, closeLog>>

poolVars == <<poolInitialized, availableVADs, allocatedVADs, closedVADs, acquirer>>

syncVars == <<syncCall>>

pipeVars == <<llmStream, outputPipe, postHandler, downstreamRead, pipeCtxDone>>

resizeVars == <<maxSize, created, resizer, resized>>

decodeVars == <<opusClosed, sessionCtxDone, decodeLoop>>

auxVars ==
    <<callVars, collectorVars, managerVars, poolVars, syncVars, pipeVars, resizeVars, decodeVars>>

vars == <<memVars, ttsVars, graphVars, audioVars, chatVars, auxVars>>

nonMemVars == <<ttsVars, graphVars, audioVars, chatVars, auxVars>>

nonTtsVars == <<memVars, graphVars, audioVars, chatVars, auxVars>>

nonGraphVars == <<memVars, ttsVars, audioVars, chatVars, auxVars>>

nonAudioVars == <<memVars, ttsVars, graphVars, chatVars, auxVars>>

nonChatVars == <<memVars, ttsVars, graphVars, auxVars>>

nonCallVars ==
    <<memVars, ttsVars, graphVars, audioVars, chatVars,
      collectorVars, managerVars, poolVars, syncVars, pipeVars,
      resizeVars, decodeVars>>

nonCollectorVars ==
    <<memVars, ttsVars, graphVars, audioVars, chatVars,
      callVars, managerVars, poolVars, syncVars, pipeVars,
      resizeVars, decodeVars>>

nonManagerVars ==
    <<memVars, ttsVars, graphVars, audioVars, chatVars,
      callVars, collectorVars, poolVars, syncVars, pipeVars,
      resizeVars, decodeVars>>

nonPoolVars ==
    <<memVars, ttsVars, graphVars, audioVars, chatVars,
      callVars, collectorVars, managerVars, syncVars, pipeVars,
      resizeVars, decodeVars>>

nonSyncVars ==
    <<memVars, ttsVars, graphVars, audioVars, chatVars,
      callVars, collectorVars, managerVars, poolVars, pipeVars,
      resizeVars, decodeVars>>

nonPipeVars ==
    <<memVars, ttsVars, graphVars, audioVars, chatVars,
      callVars, collectorVars, managerVars, poolVars, syncVars,
      resizeVars, decodeVars>>

nonResizeVars ==
    <<memVars, ttsVars, graphVars, audioVars, chatVars,
      callVars, collectorVars, managerVars, poolVars, syncVars,
      pipeVars, decodeVars>>

nonDecodeVars ==
    <<memVars, ttsVars, graphVars, audioVars, chatVars,
      callVars, collectorVars, managerVars, poolVars, syncVars,
      pipeVars, resizeVars>>

----------------------------------------------------------------------------
(* Generic helpers *)

Range(s) == {s[i] : i \in 1..Len(s)}

Max(S) == CHOOSE x \in S : \A y \in S : y <= x

----------------------------------------------------------------------------
(* Conversation memory: EventHandle.HandleAddMessage and PGMemory          *)

\* Bound on the number of add_message events published in one behaviour.
MaxPublished == 3

\* Bound on the number of pool workers that run the job handler at once
\* (the pool is created with 10 workers).
PoolWorkers == 2

Workers == 1..PoolWorkers

\* Identifiers passed as agentID, written as sequences of characters.
AgentIDs == { <<"a">>, <<"a", ":", "s">>, <<"b", ":", "s">> }

\* Index of the last ':' of an identifier, 0 when it has none.
LastColon(agentID) ==
    LET idx == {i \in 1..Len(agentID) : agentID[i] = ":"}
    IN  IF idx = {} THEN 0 ELSE Max(idx)

\* parseAgentID: "deviceID" or "deviceID:sessionID", split at the last ':'.
parseAgentID(agentID) ==
    LET i == LastColon(agentID)
    IN  IF i = 0
        THEN [deviceID |-> agentID, sessionID |-> agentID]
        ELSE [deviceID  |-> SubSeq(agentID, 1, i - 1),
              sessionID |-> SubSeq(agentID, i + 1, Len(agentID))]

SessionIDs == {parseAgentID(a).sessionID : a \in AgentIDs}

\* SELECT COALESCE(MAX(sequence_num), 0) WHERE session_id = sid
MaxSequenceNum(sid) ==
    LET S == {messageRows[i].sequenceNum :
                i \in {j \in 1..Len(messageRows) : messageRows[j].sessionID = sid}}
    IN  IF S = {} THEN 0 ELSE Max(S)

IdleWorker == [pc |-> "idle", agentID |-> <<>>, msg |-> 0, content |-> 0, maxSeq |-> 0]

MemInit ==
    /\ published = 0
    /\ jobQueue = <<>>
    /\ worker = [w \in Workers |-> IdleWorker]
    /\ sessionRows = {}
    /\ messageRows = <<>>

\* eventbus publish on add_message: the subscriber submits a job to the pool.
Publish(agentID) ==
    /\ published < MaxPublished
    /\ published' = published + 1
    /\ jobQueue' = Append(jobQueue, [agentID |-> agentID, msg |-> published + 1,
                                     content |-> published + 1])
    /\ UNCHANGED <<worker, sessionRows, messageRows>>
    /\ UNCHANGED nonMemVars

\* The message contents already persisted for the session and device of agentID.
PersistedContents(agentID) ==
    {messageRows[i].content :
        i \in {j \in 1..Len(messageRows) :
                  /\ messageRows[j].sessionID = parseAgentID(agentID).sessionID
                  /\ messageRows[j].deviceID = parseAgentID(agentID).deviceID}}

\* The same message is published again for its session (a caller that repeats
\* an append): the subscriber submits one more job carrying the same message.
PublishAgain(agentID, content) ==
    /\ published < MaxPublished
    /\ content \in PersistedContents(agentID)
    /\ published' = published + 1
    /\ jobQueue' = Append(jobQueue, [agentID |-> agentID, msg |-> published + 1,
                                     content |-> content])
    /\ UNCHANGED <<worker, sessionRows, messageRows>>
    /\ UNCHANGED nonMemVars

\* A free worker takes the oldest job and enters the handler (AddMessage).
TakeJob(w) ==
    /\ worker[w].pc = "idle"
    /\ jobQueue # <<>>
    /\ worker' = [worker EXCEPT ![w] =
                    [pc |-> "ensureQuery", agentID |-> Head(jobQueue).agentID,
                     msg |-> Head(jobQueue).msg, content |-> Head(jobQueue).content,
                     maxSeq |-> 0]]
    /\ jobQueue' = Tail(jobQueue)
    /\ UNCHANGED <<published, sessionRows, messageRows>>
    /\ UNCHANGED nonMemVars

\* ensureSession, first statement: SELECT the session row.
EnsureSessionQuery(w) ==
    /\ worker[w].pc = "ensureQuery"
    /\ worker' = [worker EXCEPT ![w].pc =
                    IF parseAgentID(worker[w].agentID).sessionID \in sessionRows
                    THEN "readMax" ELSE "ensureCreate"]
    /\ UNCHANGED <<published, jobQueue, sessionRows, messageRows>>
    /\ UNCHANGED nonMemVars

\* ensureSession, second statement: INSERT the session row.  session_id has a
\* unique index: the insert fails when another call created the row meanwhile,
\* and AddMessage returns that error without persisting the message.
EnsureSessionCreate(w) ==
    /\ worker[w].pc = "ensureCreate"
    /\ LET sid == parseAgentID(worker[w].agentID).sessionID
       IN  IF sid \in sessionRows
           THEN /\ worker' = [worker EXCEPT ![w] = IdleWorker]
                /\ UNCHANGED sessionRows
           ELSE /\ sessionRows' = sessionRows \cup {sid}
                /\ worker' = [worker EXCEPT ![w].pc = "readMax"]
    /\ UNCHANGED <<published, jobQueue, messageRows>>
    /\ UNCHANGED nonMemVars

\* AddMessage: read the session's highest sequence number.
ReadMaxSeq(w) ==
    /\ worker[w].pc = "readMax"
    /\ worker' = [worker EXCEPT
                    ![w].pc = "insert",
                    ![w].maxSeq = MaxSequenceNum(parseAgentID(worker[w].agentID).sessionID)]
    /\ UNCHANGED <<published, jobQueue, sessionRows, messageRows>>
    /\ UNCHANGED nonMemVars

\* uuid.New(): a value no earlier call returned.  Every call of AddMessage
\* draws one, so the number of the event the call handles stands for it.
NewUuid(w) == worker[w].msg

\* The row AddMessage builds: sequence_num is the value read earlier plus one;
\* message_id is a fresh uuid, whatever message the caller passed.
NewMessageRow(w) ==
    [sessionID   |-> parseAgentID(worker[w].agentID).sessionID,
     deviceID    |-> parseAgentID(worker[w].agentID).deviceID,
     messageID   |-> NewUuid(w),
     sequenceNum |-> worker[w].maxSeq + 1,
     content     |-> worker[w].content,
     msg         |-> worker[w].msg]

\* The unique index on message_id: Create fails when the id is already stored.
MessageIDTaken(row) ==
    \E i \in 1..Len(messageRows) : messageRows[i].messageID = row.messageID

\* AddMessage: INSERT the message row (idx_session_seq is not unique).
InsertMessage(w) ==
    /\ worker[w].pc = "insert"
    /\ messageRows' = IF MessageIDTaken(NewMessageRow(w))
                      THEN messageRows
                      ELSE Append(messageRows, NewMessageRow(w))
    /\ worker' = [worker EXCEPT ![w] = IdleWorker]
    /\ UNCHANGED <<published, jobQueue, sessionRows>>
    /\ UNCHANGED nonMemVars

MemNext ==
    \/ \E a \in AgentIDs : Publish(a)
    \/ \E a \in AgentIDs : \E c \in 1..MaxPublished : PublishAgain(a, c)
    \/ \E w \in Workers : TakeJob(w)
    \/ \E w \in Workers : EnsureSessionQuery(w)
    \/ \E w \in Workers : EnsureSessionCreate(w)
    \/ \E w \in Workers : ReadMaxSeq(w)
    \/ \E w \in Workers : InsertMessage(w)

----------------------------------------------------------------------------
(* Sentence-level TTS: TTSManager.processTTSQueue, handleTts, SendTTSAudio,  *)
(* processFlowControl and SendAudioToMetaHuman                               *)

\* Bound on the number of sentences pushed to the TTS queue in one behaviour.
MaxSentences == 2

\* Bound on the number of opus frames the provider produces for one sentence.
MaxFrames == 1

\* Bound on the clock, in ms.
MaxNow == 20

\* make(chan []byte, 1000): capacity of flowControlChan and of metaAudioChan.
FanOutChanCap == 1000

\* The target depth of the client's buffer, in ms.
TargetBufferMs == 120

Sentences == 1..MaxSentences

\* cacheFrameCount := 120 / OutputAudioFormat.FrameDuration (integer division)
CacheFrameCount == TargetBufferMs \div frameDuration

NoChan == [open |-> FALSE, buf |-> <<>>, closed |-> FALSE]

NewChan == [open |-> TRUE, buf |-> <<>>, closed |-> FALSE]

\* A non-blocking send (select with default): the frame is queued when the
\* channel has room and is skipped for this channel otherwise.
TrySend(ch, frame) ==
    IF Len(ch.buf) < FanOutChanCap THEN [ch EXCEPT !.buf = Append(@, frame)] ELSE ch

NewSentence ==
    [synthOk |-> FALSE, startTime |-> 0, received |-> <<>>,
     sawClose |-> FALSE, sawCancel |-> FALSE, result |-> "none"]

\* A message or binary frame written to the client transport.
Written(kind, s, frame) ==
    [kind |-> kind, sentence |-> s, frame |-> frame, at |-> now, cancelled |-> ctxCancelled]

\* The pipeline before the first sentence.
TtsStart ==
    /\ now = 0
    /\ ctxCancelled = FALSE
    /\ ttsPushed = 0
    /\ ttsQueue = <<>>
    /\ tts = [pc |-> "pop", cur |-> 0]
    /\ audioChan = [open |-> FALSE, buf |-> <<>>, closed |-> FALSE, produced |-> 0]
    /\ flowControlChan = NoChan
    /\ metaAudioChan = NoChan
    /\ flowControl = "idle"
    /\ metaHuman = "idle"
    /\ sentence = [s \in Sentences |-> NewSentence]
    /\ clientLog = <<>>

\* OutputAudioFormat.FrameDuration: 20 ms is what the xiaozhi provider is
\* given, 60 ms stands for a configured frame duration.
TtsInit == frameDuration \in {20, 60} /\ TtsStart

\* The pipeline left alone.
TtsIdle == frameDuration = 60 /\ TtsStart

\* Time passes.
Tick ==
    /\ now < MaxNow
    /\ now' = now + frameDuration
    /\ UNCHANGED <<frameDuration, ctxCancelled, ttsPushed, ttsQueue, tts, audioChan,
                   flowControlChan, metaAudioChan, flowControl, metaHuman, sentence, clientLog>>
    /\ UNCHANGED nonTtsVars

\* handleTextResponse with a non-empty sentence: the item is pushed to the queue.
PushSentence ==
    /\ ~ctxCancelled
    /\ ttsPushed < MaxSentences
    /\ ttsPushed' = ttsPushed + 1
    /\ ttsQueue' = Append(ttsQueue, ttsPushed + 1)
    /\ UNCHANGED <<frameDuration, now, ctxCancelled, tts, audioChan, flowControlChan,
                   metaAudioChan, flowControl, metaHuman, sentence, clientLog>>
    /\ UNCHANGED nonTtsVars

\* handleAbortMessage: the run context is cancelled and the abort response is sent.
Abort ==
    /\ ~ctxCancelled
    /\ ctxCancelled' = TRUE
    /\ clientLog' = Append(clientLog,
                      [kind |-> "abort", sentence |-> 0, frame |-> 0, at |-> now, cancelled |-> TRUE])
    /\ UNCHANGED <<frameDuration, now, ttsPushed, ttsQueue, tts, audioChan, flowControlChan,
                   metaAudioChan, flowControl, metaHuman, sentence>>
    /\ UNCHANGED nonTtsVars

\* A mistaken consumer that pops the next item while handleTts is running.
ConsumerAlwaysFree(pc) == TRUE

\* processTTSQueue calls handleTts in its loop and pops again only when it
\* has returned.
ConsumerFree(pc) == pc = "pop"

\* ttsQueue.Pop: the item pushed first, and the queue without it.
Pop(queue) == [item |-> Head(queue), rest |-> Tail(queue)]

\* processTTSQueue: pop the next item (the queue's own context is the manager's,
\* not the run's) and enter handleTts.
PopItem ==
    /\ ConsumerFree(tts.pc)
    /\ ttsQueue # <<>>
    /\ tts' = [pc |-> "synth", cur |-> Pop(ttsQueue).item]
    /\ ttsQueue' = Pop(ttsQueue).rest
    /\ UNCHANGED <<frameDuration, now, ctxCancelled, ttsPushed, audioChan, flowControlChan,
                   metaAudioChan, flowControl, metaHuman, sentence, clientLog>>
    /\ UNCHANGED nonTtsVars

\* handleTts: TextToSpeechStream returns the sentence's audio channel, or fails.
Synthesize(ok) ==
    /\ tts.pc = "synth"
    /\ IF ok
       THEN /\ audioChan' = [open |-> TRUE, buf |-> <<>>, closed |-> FALSE, produced |-> 0]
            /\ sentence' = [sentence EXCEPT ![tts.cur].synthOk = TRUE]
            /\ tts' = [tts EXCEPT !.pc = "sendStart"]
       ELSE /\ sentence' = [sentence EXCEPT ![tts.cur].result = "err"]
            /\ tts' = [tts EXCEPT !.pc = "pop"]
            /\ UNCHANGED audioChan
    /\ UNCHANGED <<frameDuration, now, ctxCancelled, ttsPushed, ttsQueue, flowControlChan,
                   metaAudioChan, flowControl, metaHuman, clientLog>>
    /\ UNCHANGED nonTtsVars

\* The TTS provider puts the next opus frame on the sentence's channel.
ProviderProduce ==
    /\ audioChan.open /\ ~audioChan.closed
    /\ audioChan.produced < MaxFrames
    /\ audioChan' = [audioChan EXCEPT !.buf = Append(@, audioChan.produced + 1),
                                      !.produced = @ + 1]
    /\ UNCHANGED <<frameDuration, now, ctxCancelled, ttsPushed, ttsQueue, tts, flowControlChan,
                   metaAudioChan, flowControl, metaHuman, sentence, clientLog>>
    /\ UNCHANGED nonTtsVars

\* The TTS provider closes the sentence's channel.
ProviderClose ==
    /\ audioChan.open /\ ~audioChan.closed
    /\ audioChan' = [audioChan EXCEPT !.closed = TRUE]
    /\ UNCHANGED <<frameDuration, now, ctxCancelled, ttsPushed, ttsQueue, tts, flowControlChan,
                   metaAudioChan, flowControl, metaHuman, sentence, clientLog>>
    /\ UNCHANGED nonTtsVars

\* handleTts: SendSentenceStart; a failed send ends handleTts with the error.
SendSentenceStart(ok) ==
    /\ tts.pc = "sendStart"
    /\ IF ok
       THEN /\ clientLog' = Append(clientLog, Written("sentence_start", tts.cur, 0))
            /\ tts' = [tts EXCEPT !.pc = "audioStart"]
            /\ UNCHANGED sentence
       ELSE /\ sentence' = [sentence EXCEPT ![tts.cur].result = "err"]
            /\ tts' = [tts EXCEPT !.pc = "pop"]
            /\ UNCHANGED clientLog
    /\ UNCHANGED <<frameDuration, now, ctxCancelled, ttsPushed, ttsQueue, audioChan,
                   flowControlChan, metaAudioChan, flowControl, metaHuman>>
    /\ UNCHANGED nonTtsVars

\* SendTTSAudio, up to its loop: the two channels are made and the two
\* goroutines are started.
SendTTSAudioStart ==
    /\ tts.pc = "audioStart"
    /\ flowControlChan' = NewChan
    /\ metaAudioChan' = NewChan
    /\ flowControl' = "running"
    /\ metaHuman' = "running"
    /\ sentence' = [sentence EXCEPT ![tts.cur].startTime = now]
    /\ tts' = [tts EXCEPT !.pc = "loop"]
    /\ UNCHANGED <<frameDuration, now, ctxCancelled, ttsPushed, ttsQueue, audioChan, clientLog>>
    /\ UNCHANGED nonTtsVars

\* SendTTSAudio, loop, case frame := <-audioChan: the frame is handed to both
\* channels without blocking.
SendTTSAudioRecv ==
    /\ tts.pc = "loop"
    /\ audioChan.buf # <<>>
    /\ LET frame == Head(audioChan.buf)
       IN  /\ metaAudioChan' = TrySend(metaAudioChan, frame)
           /\ flowControlChan' = TrySend(flowControlChan, frame)
           /\ sentence' = [sentence EXCEPT ![tts.cur].received = Append(@, frame)]
    /\ audioChan' = [audioChan EXCEPT !.buf = Tail(@)]
    /\ UNCHANGED <<frameDuration, now, ctxCancelled, ttsPushed, ttsQueue, tts, flowControl,
                   metaHuman, clientLog>>
    /\ UNCHANGED nonTtsVars

\* SendTTSAudio, loop, case audioChan closed: both channels are closed.
SendTTSAudioClosed ==
    /\ tts.pc = "loop"
    /\ audioChan.buf = <<>> /\ audioChan.closed
    /\ metaAudioChan' = [metaAudioChan EXCEPT !.closed = TRUE]
    /\ flowControlChan' = [flowControlChan EXCEPT !.closed = TRUE]
    /\ sentence' = [sentence EXCEPT ![tts.cur].sawClose = TRUE]
    /\ tts' = [tts EXCEPT !.pc = "wait"]
    /\ UNCHANGED <<frameDuration, now, ctxCancelled, ttsPushed, ttsQueue, audioChan, flowControl,
                   metaHuman, clientLog>>
    /\ UNCHANGED nonTtsVars

\* SendTTSAudio, loop, case <-ctx.Done(): both channels are closed.
SendTTSAudioCtxDone ==
    /\ tts.pc = "loop"
    /\ ctxCancelled
    /\ metaAudioChan' = [metaAudioChan EXCEPT !.closed = TRUE]
    /\ flowControlChan' = [flowControlChan EXCEPT !.closed = TRUE]
    /\ sentence' = [sentence EXCEPT ![tts.cur].sawCancel = TRUE]
    /\ tts' = [tts EXCEPT !.pc = "wait"]
    /\ UNCHANGED <<frameDuration, now, ctxCancelled, ttsPushed, ttsQueue, audioChan, flowControl,
                   metaHuman, clientLog>>
    /\ UNCHANGED nonTtsVars

\* processFlowControl: "defer wg.Done(); return" -- the goroutine returns before
\* its pacing loop, so it never reads flowControlChan and never calls SendAudio.
ProcessFlowControl ==
    /\ flowControl = "running"
    /\ flowControl' = "done"
    /\ UNCHANGED <<frameDuration, now, ctxCancelled, ttsPushed, ttsQueue, tts, audioChan,
                   flowControlChan, metaAudioChan, metaHuman, sentence, clientLog>>
    /\ UNCHANGED nonTtsVars

\* SendAudioToMetaHuman takes a frame for the digital-human queue.
MetaHumanRecv ==
    /\ metaHuman = "running"
    /\ metaAudioChan.buf # <<>>
    /\ metaAudioChan' = [metaAudioChan EXCEPT !.buf = Tail(@)]
    /\ UNCHANGED <<frameDuration, now, ctxCancelled, ttsPushed, ttsQueue, tts, audioChan,
                   flowControlChan, flowControl, metaHuman, sentence, clientLog>>
    /\ UNCHANGED nonTtsVars

\* SendAudioToMetaHuman returns: no redis client or a decode error (at any
\* time), the context is done, or its channel is closed and drained.
MetaHumanReturn ==
    /\ metaHuman = "running"
    /\ metaHuman' = "done"
    /\ UNCHANGED <<frameDuration, now, ctxCancelled, ttsPushed, ttsQueue, tts, audioChan,
                   flowControlChan, metaAudioChan, flowControl, sentence, clientLog>>
    /\ UNCHANGED nonTtsVars

\* SendTTSAudio: wg.Wait() is over, SendTTSAudio returns nil.
SendTTSAudioReturn ==
    /\ tts.pc = "wait"
    /\ flowControl = "done" /\ metaHuman = "done"
    /\ tts' = [tts EXCEPT !.pc = "sendEnd"]
    /\ UNCHANGED <<frameDuration, now, ctxCancelled, ttsPushed, ttsQueue, audioChan,
                   flowControlChan, metaAudioChan, flowControl, metaHuman, sentence, clientLog>>
    /\ UNCHANGED nonTtsVars

\* handleTts: SendSentenceEnd, then handleTts returns (nil, or the send error).
SendSentenceEnd(ok) ==
    /\ tts.pc = "sendEnd"
    /\ IF ok
       THEN /\ clientLog' = Append(clientLog, Written("sentence_end", tts.cur, 0))
            /\ sentence' = [sentence EXCEPT ![tts.cur].result = "ok"]
       ELSE /\ sentence' = [sentence EXCEPT ![tts.cur].result = "err"]
            /\ UNCHANGED clientLog
    /\ tts' = [tts EXCEPT !.pc = "pop"]
    /\ UNCHANGED <<frameDuration, now, ctxCancelled, ttsPushed, ttsQueue, audioChan,
                   flowControlChan, metaAudioChan, flowControl, metaHuman>>
    /\ UNCHANGED nonTtsVars

TtsNext ==
    \/ Tick
    \/ PushSentence
    \/ Abort
    \/ PopItem
    \/ \E ok \in BOOLEAN : Synthesize(ok)
    \/ ProviderProduce
    \/ ProviderClose
    \/ \E ok \in BOOLEAN : SendSentenceStart(ok)
    \/ SendTTSAudioStart
    \/ SendTTSAudioRecv
    \/ SendTTSAudioClosed
    \/ SendTTSAudioCtxDone
    \/ ProcessFlowControl
    \/ MetaHumanRecv
    \/ MetaHumanReturn
    \/ SendTTSAudioReturn
    \/ \E ok \in BOOLEAN : SendSentenceEnd(ok)

----------------------------------------------------------------------------
(* TTSManager.handleTextResponse: a call that queues its sentence and, when  *)
(* it is synchronous, waits for the consumer to be done with it.             *)

\* timer := time.NewTimer(30 * time.Second), in ms.
SyncTimeoutMs == 30000

\* The step of the caller's clock, in ms.
SyncTickMs == 15000

\* llmResponse.Text: empty or not.
Texts == {"", "t"}

NoSyncCall ==
    [pc |-> "idle", text |-> "", isSync |-> FALSE, item |-> 0, waited |-> 0, result |-> "none"]

SyncIdle == syncCall = NoSyncCall

nonTtsSyncVars ==
    <<memVars, graphVars, audioVars, chatVars, callVars, collectorVars, managerVars, poolVars,
      pipeVars, resizeVars, decodeVars>>

\* A mistaken onEndFunc that signals before handleTts has run.
EndChanFilledAtPush(s) == TRUE

\* endChan holds a value: the consumer has called the item's onEndFunc, which
\* it does when handleTts has returned, whatever handleTts returned.
EndChanFilled(s) == sentence[s].result # "none"

\* handleTextResponse up to its select: an empty text returns nil at once;
\* otherwise the item is pushed, and an asynchronous call returns nil.
HandleTextResponse(text, isSync) ==
    /\ syncCall.pc = "idle"
    /\ IF text = ""
       THEN /\ syncCall' = [syncCall EXCEPT !.pc = "returned", !.text = text, !.isSync = isSync,
                                            !.result = "nil"]
            /\ UNCHANGED <<ttsPushed, ttsQueue>>
       ELSE /\ ttsPushed < MaxSentences
            /\ ttsPushed' = ttsPushed + 1
            /\ ttsQueue' = Append(ttsQueue, ttsPushed + 1)
            /\ syncCall' = [syncCall EXCEPT !.pc = IF isSync THEN "select" ELSE "returned",
                                            !.text = text, !.isSync = isSync,
                                            !.item = ttsPushed + 1,
                                            !.result = IF isSync THEN "none" ELSE "nil"]
    /\ UNCHANGED <<frameDuration, now, ctxCancelled, tts, audioChan, flowControlChan,
                   metaAudioChan, flowControl, metaHuman, sentence, clientLog>>
    /\ UNCHANGED nonTtsSyncVars

\* The select of the synchronous call: one of the cases that are ready.
SelectReturn ==
    /\ syncCall.pc = "select"
    /\ \E case \in {"nil", "cancelled", "timeout"} :
          /\ \/ case = "nil" /\ EndChanFilled(syncCall.item)
             \/ case = "cancelled" /\ ctxCancelled
             \/ case = "timeout" /\ syncCall.waited >= SyncTimeoutMs
          /\ syncCall' = [syncCall EXCEPT !.pc = "returned", !.result = case]
    /\ UNCHANGED ttsVars
    /\ UNCHANGED nonTtsSyncVars

\* The timer of the synchronous call runs.
SyncTick ==
    /\ syncCall.pc = "select"
    /\ syncCall.waited < SyncTimeoutMs
    /\ syncCall' = [syncCall EXCEPT !.waited = @ + SyncTickMs]
    /\ UNCHANGED ttsVars
    /\ UNCHANGED nonTtsSyncVars

\* The TTS pipeline while one handleTextResponse call is followed: at most one
\* other sentence is queued, before the call, and the pipeline's clock, which
\* only the pacer reads, stands still.
SyncNext ==
    \/ syncCall.pc = "idle" /\ ttsPushed = 0 /\ PushSentence
    \/ Abort
    \/ PopItem
    \/ \E ok \in BOOLEAN : Synthesize(ok)
    \/ ProviderProduce
    \/ ProviderClose
    \/ \E ok \in BOOLEAN : SendSentenceStart(ok)
    \/ SendTTSAudioStart
    \/ SendTTSAudioRecv
    \/ SendTTSAudioClosed
    \/ SendTTSAudioCtxDone
    \/ ProcessFlowControl
    \/ MetaHumanRecv
    \/ MetaHumanReturn
    \/ SendTTSAudioReturn
    \/ \E ok \in BOOLEAN : SendSentenceEnd(ok)
    \/ \E text \in Texts, isSync \in BOOLEAN : HandleTextResponse(text, isSync)
    \/ SelectReturn
    \/ SyncTick

----------------------------------------------------------------------------
(* The StreamStatePostHandler of the LLM node: it copies the LLM stream into *)
(* a pipe and returns the pipe's reader when the stream has ended.           *)

\* schema.Pipe[*schema.Message](10): the capacity of the pipe.
PipeCap == 10

\* Bound on the number of deltas of the LLM stream.
MaxPipeDeltas == 11

PipeIdle ==
    /\ llmStream = <<>>
    /\ outputPipe = [buf |-> <<>>, closed |-> FALSE]
    /\ postHandler = [pc |-> "recv", msg |-> 0, received |-> <<>>, result |-> "none"]
    /\ downstreamRead = <<>>
    /\ pipeCtxDone = FALSE

\* The handler is entered with an LLM stream of any length up to the bound.
PipeInit ==
    /\ llmStream \in { [i \in 1..n |-> i] : n \in 0..MaxPipeDeltas }
    /\ outputPipe = [buf |-> <<>>, closed |-> FALSE]
    /\ postHandler = [pc |-> "recv", msg |-> 0, received |-> <<>>, result |-> "none"]
    /\ downstreamRead = <<>>
    /\ pipeCtxDone = FALSE

\* The run context is cancelled.
PipeCancel ==
    /\ ~pipeCtxDone
    /\ postHandler.pc # "returned"
    /\ pipeCtxDone' = TRUE
    /\ UNCHANGED <<llmStream, outputPipe, postHandler, downstreamRead>>
    /\ UNCHANGED nonPipeVars

\* The head of the loop: case <-ctx.Done() returns ctx.Err(); the deferred
\* outputWriter.Close() runs.
PostHandlerCtxDone ==
    /\ postHandler.pc = "recv"
    /\ pipeCtxDone
    /\ postHandler' = [postHandler EXCEPT !.pc = "returned", !.result = "err"]
    /\ outputPipe' = [outputPipe EXCEPT !.closed = TRUE]
    /\ UNCHANGED <<llmStream, downstreamRead, pipeCtxDone>>
    /\ UNCHANGED nonPipeVars

\* out.Recv(): the next delta, or io.EOF, on which the loop is left and the
\* reader is returned; the deferred outputWriter.Close() runs.
PostHandlerRecv ==
    /\ postHandler.pc = "recv"
    /\ IF llmStream = <<>>
       THEN /\ postHandler' = [postHandler EXCEPT !.pc = "returned", !.result = "reader"]
            /\ outputPipe' = [outputPipe EXCEPT !.closed = TRUE]
            /\ UNCHANGED llmStream
       ELSE /\ postHandler' = [postHandler EXCEPT !.pc = "send", !.msg = Head(llmStream),
                                                  !.received = Append(@, Head(llmStream))]
            /\ llmStream' = Tail(llmStream)
            /\ UNCHANGED outputPipe
    /\ UNCHANGED <<downstreamRead, pipeCtxDone>>
    /\ UNCHANGED nonPipeVars

\* The pipe's channel takes an item while it holds fewer than its capacity.
PipeHasRoom(pipe) == Len(pipe.buf) < PipeCap

\* outputWriter.Send(msg, nil): blocks while the pipe is full; nothing reads
\* from the pipe before the handler has returned its reader.
PostHandlerSend ==
    /\ postHandler.pc = "send"
    /\ PipeHasRoom(outputPipe)
    /\ outputPipe' = [outputPipe EXCEPT !.buf = Append(@, postHandler.msg)]
    /\ postHandler' = [postHandler EXCEPT !.pc = "recv", !.msg = 0]
    /\ UNCHANGED <<llmStream, downstreamRead, pipeCtxDone>>
    /\ UNCHANGED nonPipeVars

\* The next node reads from the reader the handler returned.
DownstreamRecv ==
    /\ postHandler.pc = "returned" /\ postHandler.result = "reader"
    /\ outputPipe.buf # <<>>
    /\ downstreamRead' = Append(downstreamRead, Head(outputPipe.buf))
    /\ outputPipe' = [outputPipe EXCEPT !.buf = Tail(@)]
    /\ UNCHANGED <<llmStream, postHandler, pipeCtxDone>>
    /\ UNCHANGED nonPipeVars

PipeNext ==
    \/ PipeCancel
    \/ PostHandlerCtxDone
    \/ PostHandlerRecv
    \/ PostHandlerSend
    \/ DownstreamRecv

\* The steps of the post-handler and of the node that reads its output.
PipeProgress == PostHandlerCtxDone \/ PostHandlerRecv \/ PostHandlerSend \/ DownstreamRecv

----------------------------------------------------------------------------
(* One run of the graph built by ChatSession.CreateLlmTtsGraph:              *)
(* START -> chat_template -> llm -> llm_sentence -> (tts -> tts2client),     *)
(* llm_sentence -branch-> tool_call -> tool_call_result -branch-> llm | END, *)
(* llm_sentence -branch-> llm_sentence_collect -> pass_through_2 -> END      *)

\* Bound on the number of LLM invocations of one run: the model's LLM stops
\* asking for tools at its last allowed invocation.
MaxLlmCalls == 2

\* Bound on the number of deltas of one LLM stream.
MaxDeltas == 2

\* Message contents, written as sequences of characters.
StopMark == <<"[", "S", "T", "O", "P", "]">>

Text == <<"o", "k">>

CallIDs == {"", "c1"}

Msg(role, content, toolCalls, toolCallID) ==
    [role |-> role, content |-> content, toolCalls |-> toolCalls, toolCallID |-> toolCallID]

\* The deltas an LLM stream is made of: a text fragment or a tool call.
Deltas ==
    {Msg("assistant", Text, <<>>, "")}
        \cup {Msg("assistant", <<>>, <<[id |-> id, name |-> "tool"]>>, "") : id \in CallIDs}

\* The streams the model may produce; the empty one ends without a delta.
LlmStreams == UNION {[1..n -> Deltas] : n \in 0..MaxDeltas}

\* What a tool returns.
ToolOutputs == {Text, StopMark \o Text, SubSeq(StopMark, 1, 5)}

RECURSIVE Aggregate(_)
\* The LLM node's stream post-handler: the content of the assistant deltas is
\* concatenated and their tool calls are appended, in stream order.
Aggregate(deltas) ==
    IF deltas = <<>>
    THEN Msg("", <<>>, <<>>, "")
    ELSE LET d == deltas[Len(deltas)]
             f == Aggregate(SubSeq(deltas, 1, Len(deltas) - 1))
         IN  IF d.role = "assistant"
             THEN [f EXCEPT !.content = @ \o d.content, !.toolCalls = @ \o d.toolCalls]
             ELSE f

\* A mistaken post-handler that appends the aggregated message in any case.
HistoryAfterStreamAlways(h, deltas) ==
    Append(h, [Aggregate(deltas) EXCEPT !.role = "assistant"])

\* On io.EOF the post-handler appends the aggregated message, with role
\* assistant, when it has content or tool calls.
HistoryAfterStream(h, deltas) ==
    LET f == Aggregate(deltas)
    IN  IF f.content # <<>> \/ Len(f.toolCalls) > 0
        THEN Append(h, [f EXCEPT !.role = "assistant"])
        ELSE h

\* afterLlmSentenceBranchCondition: tool_call when a message of the stream
\* carries tool calls, llm_sentence_collect otherwise.
afterLlmSentenceBranchCondition(stream) ==
    IF \E i \in 1..Len(stream) : Len(stream[i].toolCalls) > 0
    THEN "tool_call"
    ELSE "llm_sentence_collect"

\* toolCallMap := make(map[string]*schema.ToolCall); nothing is ever stored in it.
toolCallMap == {}

HasStopPrefix(content) == Len(content) >= 6 /\ SubSeq(content, 1, 6) = StopMark

RECURSIVE toolCallResultHandler(_, _)
\* toolCallResultHandler over the ToolsNode output; shouldStop[i] is what
\* processToolCallResult answers for the i-th remaining message.
toolCallResultHandler(input, shouldStop) ==
    IF input = <<>>
    THEN <<>>
    ELSE LET msg  == Head(input)
             rest == toolCallResultHandler(Tail(input), Tail(shouldStop))
         IN  IF msg.role = "tool" /\ msg.toolCallID # ""
             THEN IF msg.toolCallID \notin toolCallMap
                  THEN rest             \* "continue": the result is left out
                  ELSE <<Msg("tool",
                             IF Head(shouldStop) THEN StopMark \o msg.content ELSE msg.content,
                             <<>>, msg.toolCallID)>> \o rest
             ELSE <<msg>> \o rest

IsStopResult(msg) == msg.role = "tool" /\ HasStopPrefix(msg.content)

\* A variant that forgets the stop check.
afterToolCallBranchConditionNoStop(input) ==
    IF \E i \in 1..Len(input) : Len(input[i].toolCalls) > 0 \/ input[i].role = "tool"
    THEN "llm"
    ELSE "END"

\* A variant that forgets that a tool result alone leads back to the LLM.
afterToolCallBranchConditionToolCallsOnly(input) ==
    IF \E i \in 1..Len(input) : IsStopResult(input[i])
    THEN "END"
    ELSE IF \E i \in 1..Len(input) : Len(input[i].toolCalls) > 0
         THEN "llm"
         ELSE "END"

\* afterToolCallBranchCondition: END at the first [STOP] tool result; llm when
\* a message carries tool calls or is a tool result; END otherwise.  A message
\* seen before the first [STOP] result only sets a flag, so a [STOP] result
\* anywhere in the list decides.
afterToolCallBranchCondition(input) ==
    IF \E i \in 1..Len(input) : IsStopResult(input[i])
    THEN "END"
    ELSE IF \E i \in 1..Len(input) : Len(input[i].toolCalls) > 0
         THEN "llm"
         ELSE IF \E i \in 1..Len(input) : input[i].role = "tool"
              THEN "llm"
              ELSE "END"

\* ServerTransport.SendTtsStart / SendTtsStop: the marker goes to the client.
SendMarker(log, marker) == Append(log, marker)

\* sendTtsStart: the marker is sent unless the context given to the callback
\* carries "tts_start".  The context the callback returns is the one of this
\* node execution only; the run's context is never given the value.
RunCtxHasTtsStart == FALSE

GraphInit ==
    /\ graph = [pc |-> "START", in |-> <<>>, stream |-> <<>>, failed |-> FALSE, sendFailed |-> FALSE]
    /\ history = <<>>
    /\ llmInputs = <<>>
    /\ llmOutputs = <<>>
    /\ toolResults = <<>>
    /\ graphLog = <<>>

\* START -> chat_template: the template yields the messages of the request
\* (prompt, earlier history and the user's text, here one user message).
ChatTemplate ==
    /\ graph.pc = "START"
    /\ graph' = [graph EXCEPT !.pc = "llm", !.in = <<Msg("user", Text, <<>>, "")>>]
    /\ UNCHANGED <<history, llmInputs, llmOutputs, toolResults, graphLog>>
    /\ UNCHANGED nonGraphVars

\* The llm node.  Pre-handler: the input is appended to the history and the
\* history is the model's input.  The model streams `deltas`; the post-handler
\* aggregates them into the history and hands the stream on.
LLM(deltas) ==
    /\ graph.pc = "llm"
    /\ Len(llmInputs) < MaxLlmCalls
    /\ Len(llmInputs) + 1 = MaxLlmCalls => \A i \in 1..Len(deltas) : deltas[i].toolCalls = <<>>
    /\ LET h == history \o graph.in
       IN  /\ llmInputs' = Append(llmInputs, h)
           /\ history' = HistoryAfterStream(h, deltas)
           /\ llmOutputs' = Append(llmOutputs, Aggregate(deltas))
    /\ graph' = [graph EXCEPT !.pc = "llm_sentence", !.in = <<>>, !.stream = deltas]
    /\ UNCHANGED <<toolResults, graphLog>>
    /\ UNCHANGED nonGraphVars

\* The llm node, the stream not ending with io.EOF: after the pre-handler and
\* any number of deltas, out.Recv returns an error or the post-handler finds
\* the context done.  It returns the error; what it had aggregated is dropped.
LlmStreamAborted ==
    /\ graph.pc = "llm"
    /\ Len(llmInputs) < MaxLlmCalls
    /\ llmInputs' = Append(llmInputs, history \o graph.in)
    /\ history' = history \o graph.in
    /\ graph' = [graph EXCEPT !.pc = "error", !.in = <<>>, !.failed = TRUE]
    /\ UNCHANGED <<llmOutputs, toolResults, graphLog>>
    /\ UNCHANGED nonGraphVars

\* The model fails: the run ends with an error.
LLMError ==
    /\ graph.pc = "llm"
    /\ graph' = [graph EXCEPT !.pc = "error", !.failed = TRUE]
    /\ UNCHANGED <<history, llmInputs, llmOutputs, toolResults, graphLog>>
    /\ UNCHANGED nonGraphVars

\* llm_sentence has run; its successor tts starts.  The node's start callback
\* (OnStartWithStreamInputFn, info.Name = tts) calls sendTtsStart.
TtsNodeStart(ok) ==
    /\ graph.pc = "llm_sentence"
    /\ IF RunCtxHasTtsStart
       THEN UNCHANGED graphLog /\ graph' = [graph EXCEPT !.pc = "branch1"]
       ELSE IF ok
            THEN /\ graphLog' = SendMarker(graphLog, "tts_start")
                 /\ graph' = [graph EXCEPT !.pc = "branch1"]
            ELSE /\ UNCHANGED graphLog
                 /\ graph' = [graph EXCEPT !.pc = "branch1", !.sendFailed = TRUE]
    /\ UNCHANGED <<history, llmInputs, llmOutputs, toolResults>>
    /\ UNCHANGED nonGraphVars

\* The stream branch after llm_sentence.
AfterLlmSentenceBranch ==
    /\ graph.pc = "branch1"
    /\ graph' = [graph EXCEPT !.pc = afterLlmSentenceBranchCondition(graph.stream)]
    /\ UNCHANGED <<history, llmInputs, llmOutputs, toolResults, graphLog>>
    /\ UNCHANGED nonGraphVars

\* llm_sentence_collect -> pass_through_2 -> END
LLMSentenceCollect ==
    /\ graph.pc = "llm_sentence_collect"
    /\ graph' = [graph EXCEPT !.pc = "END"]
    /\ UNCHANGED <<history, llmInputs, llmOutputs, toolResults, graphLog>>
    /\ UNCHANGED nonGraphVars

\* tool_call (the ToolsNode): one tool message per tool call of the assistant
\* message, carrying the call's id and the tool's output.
ToolCall(outputs) ==
    /\ graph.pc = "tool_call"
    /\ LET calls == Aggregate(graph.stream).toolCalls
       IN  /\ DOMAIN outputs = 1..Len(calls)
           /\ graph' = [graph EXCEPT
                          !.pc = "tool_call_result",
                          !.in = [i \in 1..Len(calls) |->
                                    Msg("tool", outputs[i], <<>>, calls[i].id)]]
    /\ UNCHANGED <<history, llmInputs, llmOutputs, toolResults, graphLog>>
    /\ UNCHANGED nonGraphVars

\* tool_call_result
ToolCallResult(shouldStop) ==
    /\ graph.pc = "tool_call_result"
    /\ DOMAIN shouldStop = DOMAIN graph.in
    /\ LET out == toolCallResultHandler(graph.in, shouldStop)
       IN  /\ toolResults' = Append(toolResults,
                                  [in |-> graph.in, out |-> out, llmCalls |-> Len(llmInputs)])
           /\ graph' = [graph EXCEPT !.pc = "branch2", !.in = out]
    /\ UNCHANGED <<history, llmInputs, llmOutputs, graphLog>>
    /\ UNCHANGED nonGraphVars

\* The list branch after tool_call_result.
AfterToolCallBranch ==
    /\ graph.pc = "branch2"
    /\ graph' = [graph EXCEPT !.pc = afterToolCallBranchCondition(graph.in)]
    /\ UNCHANGED <<history, llmInputs, llmOutputs, toolResults, graphLog>>
    /\ UNCHANGED nonGraphVars

\* The run ends: the graph's own end callback (OnEndWithStreamOutputFn), or
\* its error callback, calls sendTtsStop.
GraphEnd(ok) ==
    /\ graph.pc \in {"END", "error"}
    /\ IF ok
       THEN /\ graphLog' = SendMarker(graphLog, "tts_stop")
            /\ graph' = [graph EXCEPT !.pc = "done"]
       ELSE /\ UNCHANGED graphLog
            /\ graph' = [graph EXCEPT !.pc = "done", !.sendFailed = TRUE]
    /\ UNCHANGED <<history, llmInputs, llmOutputs, toolResults>>
    /\ UNCHANGED nonGraphVars

GraphNext ==
    \/ ChatTemplate
    \/ \E deltas \in LlmStreams : LLM(deltas)
    \/ LlmStreamAborted
    \/ LLMError
    \/ \E ok \in BOOLEAN : TtsNodeStart(ok)
    \/ AfterLlmSentenceBranch
    \/ LLMSentenceCollect
    \/ \E n \in 1..MaxDeltas : \E outputs \in [1..n -> ToolOutputs] : ToolCall(outputs)
    \/ \E n \in 1..MaxDeltas : \E shouldStop \in [1..n -> BOOLEAN] : ToolCallResult(shouldStop)
    \/ AfterToolCallBranch
    \/ \E ok \in BOOLEAN : GraphEnd(ok)

----------------------------------------------------------------------------
(* The inbound audio pipe: RecvAudio (the transport reader's side) and the   *)
(* decode/VAD activity started by ProcessVadAudio                            *)

\* OpusAudioBuffer: make(chan []byte, 100)
OpusAudioBufferCap == 100

\* maxSilenceDuration: the default of chat.chat_max_silence_duration, in ms
SilenceThresholdTime == 200

\* vadNeedGetCount := 60 / FrameDuration: the span of one VAD window, in ms
VadWindowMs == 60

\* Bound on the number of frames pushed in the burst scenario.
BurstFrames == 102

\* Bound on the number of frames pushed in the speech scenario.
SpeechFrames == 6

\* The clock's step and its bound, in ms.
TickMs == 100

MaxAudioNow == 300

\* Bound on the number of frames pushed in the scenario with listen-mode changes.
ModeFrames == 3

\* Bound on the number of frames pushed in the scenario with VAD failures.
FaultFrames == 4

PushLimit ==
    CASE scenario = "burst"  -> BurstFrames
      [] scenario = "speech" -> SpeechFrames
      [] scenario = "modes"  -> ModeFrames
      [] OTHER               -> FaultFrames

ListenModes == {"auto", "manual", "realtime"}

\* A send on the buffered channel can proceed without blocking.
ChanHasRoomOffByOne(q) == Len(q) <= OpusAudioBufferCap

ChanHasRoom(q) == Len(q) < OpusAudioBufferCap

VadNeedGetCount == VadWindowMs \div inFrameDuration

\* The frames of the VAD buffer that IsVAD reports active; errs are the
\* positions at which the call returns an error.
ActiveFrames(byteBuffer, errs) ==
    Cardinality({i \in 1..Len(byteBuffer) : byteBuffer[i].voiced /\ i \notin errs})

\* A vote in which a tie is voice.
WindowHaveVoiceTie(byteBuffer, errs) ==
    ActiveFrames(byteBuffer, errs) >= (Len(byteBuffer) + 1) \div 2

\* The vote over the complete frames of the VAD buffer.
WindowHaveVoice(byteBuffer, errs) ==
    LET frameCount   == Len(byteBuffer)
        activeFrames == ActiveFrames(byteBuffer, errs)
    IN  activeFrames > frameCount \div 2

NoWindow == [n |-> 0, k |-> 0, errs |-> 0, voice |-> FALSE]

NoIteration == [mode |-> "none", frame |-> 0, vadRan |-> FALSE, voice |-> FALSE,
                initFailed |-> FALSE]

\* ClientState.IsSilence
IsSilence(silenceDuration) == silenceDuration >= SilenceThresholdTime

\* The pipe before the first frame.
AudioStart ==
    /\ audioNow = TickMs
    /\ pushed = 0
    /\ allVoiced = TRUE
    /\ recvResult = TRUE
    /\ opusAudioBuffer = <<>>
    /\ accepted = 0
    /\ dequeued = [count |-> 0, last |-> 0]
    /\ vad = [haveVoice |-> FALSE, haveVoiceLastTime |-> 0, voiceStop |-> FALSE,
              skipVad |-> FALSE, byteBuffer |-> <<>>, asrAudioBuffer |-> <<>>,
              audioBuffer |-> <<>>, vadProvider |-> FALSE,
              window |-> NoWindow, iter |-> NoIteration]
    /\ asrSent = <<>>
    /\ utterance = <<>>

AudioInit ==
    /\ \/ scenario = "burst" /\ listenMode = "auto" /\ inFrameDuration = 60
       \/ scenario = "speech" /\ listenMode \in {"auto", "manual"} /\ inFrameDuration \in {20, 60}
       \/ scenario = "modes" /\ listenMode = "auto" /\ inFrameDuration = 60
       \/ scenario = "faulty" /\ listenMode = "auto" /\ inFrameDuration \in {20, 60}
    /\ AudioStart

\* The pipe left alone.
AudioIdle == scenario = "speech" /\ listenMode = "auto" /\ inFrameDuration = 60 /\ AudioStart

\* Time passes (the burst scenario is over before the clock moves).
AudioTick ==
    /\ scenario \in {"speech", "modes"}
    /\ audioNow < MaxAudioNow
    /\ audioNow' = audioNow + TickMs
    /\ UNCHANGED <<scenario, inFrameDuration, listenMode, pushed, allVoiced, recvResult,
                   opusAudioBuffer, accepted, dequeued, vad, asrSent, utterance>>
    /\ UNCHANGED nonAudioVars

\* RecvAudio: select { case OpusAudioBuffer <- data: return true; default: return false }
RecvAudio(voiced) ==
    /\ pushed < PushLimit
    /\ scenario = "burst" => ~voiced
    /\ pushed' = pushed + 1
    /\ allVoiced' = (allVoiced /\ voiced)
    /\ IF ChanHasRoom(opusAudioBuffer)
       THEN /\ opusAudioBuffer' = Append(opusAudioBuffer, [id |-> pushed + 1, voiced |-> voiced])
            /\ accepted' = accepted + 1
            /\ recvResult' = TRUE
       ELSE /\ UNCHANGED <<opusAudioBuffer, accepted>>
            /\ recvResult' = FALSE
    /\ UNCHANGED <<scenario, inFrameDuration, listenMode, audioNow, dequeued, vad, asrSent,
                   utterance>>
    /\ UNCHANGED nonAudioVars

\* handleListenStart: a listen start message sets the session's listen mode.
ListenStart(mode) ==
    /\ scenario = "modes"
    /\ mode # listenMode
    /\ listenMode' = mode
    /\ UNCHANGED <<scenario, inFrameDuration, audioNow, pushed, allVoiced, recvResult,
                   opusAudioBuffer, accepted, dequeued, vad, asrSent, utterance>>
    /\ UNCHANGED nonAudioVars

\* One iteration of the decode loop of ProcessVadAudio on frame f, the
\* voice-stop flag not being set: the new vad state and what goes to ASR.
\* initOk is the outcome of initVAD when there is no VAD instance yet, errs
\* the positions of the window at which IsVAD returns an error.
ProcessFrame(f, initOk, errs) ==
    LET notAuto         == listenMode # "auto"
        clientHaveVoice == vad.haveVoice \/ notAuto
        skipVad         == vad.skipVad \/ notAuto
        audioBuffer1    == IF clientHaveVoice THEN Append(vad.audioBuffer, f.id)
                                              ELSE vad.audioBuffer
        byteBuffer1     == Append(vad.byteBuffer, f)
        initFailed      == ~skipVad /\ ~vad.vadProvider /\ ~initOk
        asrBuffer1      == IF skipVad THEN vad.asrAudioBuffer
                                      ELSE Append(vad.asrAudioBuffer, f.id)
        evaluate        == ~skipVad /\ Len(byteBuffer1) >= VadNeedGetCount
        haveVoice       == IF evaluate THEN WindowHaveVoice(byteBuffer1, errs) ELSE notAuto
        byteBuffer2     == IF evaluate THEN <<>> ELSE byteBuffer1
        firstVoice      == evaluate /\ haveVoice /\ ~clientHaveVoice
        asrBuffer2      == IF firstVoice THEN <<>> ELSE asrBuffer1
        toAsr           == (IF firstVoice THEN asrBuffer1 ELSE <<>>)
                              \o (IF haveVoice /\ clientHaveVoice THEN <<f.id>> ELSE <<>>)
        asrBuffer3      == IF ~haveVoice /\ ~clientHaveVoice
                                /\ Len(asrBuffer2) > VadNeedGetCount * 3
                           THEN Tail(asrBuffer2) ELSE asrBuffer2
        lastTime        == IF haveVoice THEN audioNow ELSE vad.haveVoiceLastTime
        silence         == /\ clientHaveVoice /\ lastTime > 0 /\ ~haveVoice
                           /\ IsSilence(audioNow - lastTime)
        window          == IF evaluate
                           THEN [n |-> Len(byteBuffer1), k |-> ActiveFrames(byteBuffer1, errs),
                                 errs |-> Cardinality(errs), voice |-> haveVoice]
                           ELSE vad.window
    IN  IF initFailed
        THEN \* "continue": the frame stays in the VAD buffer, nothing else is done
             [vad |-> [vad EXCEPT !.byteBuffer = byteBuffer1, !.audioBuffer = audioBuffer1,
                                  !.iter = [mode |-> listenMode, frame |-> f.id,
                                            vadRan |-> FALSE, voice |-> FALSE,
                                            initFailed |-> TRUE]],
              toAsr      |-> <<>>,
              firstVoice |-> FALSE,
              flushed    |-> <<>>,
              speaking   |-> clientHaveVoice]
        ELSE [vad |-> [haveVoice         |-> vad.haveVoice \/ haveVoice,
                       haveVoiceLastTime |-> lastTime,
                       voiceStop         |-> silence,
                       skipVad           |-> skipVad,
                       byteBuffer        |-> IF silence THEN <<>> ELSE byteBuffer2,
                       asrAudioBuffer    |-> asrBuffer3,
                       audioBuffer       |-> IF silence THEN <<>> ELSE audioBuffer1,
                       vadProvider       |-> vad.vadProvider \/ ~skipVad,
                       window            |-> window,
                       iter              |-> [mode |-> listenMode, frame |-> f.id,
                                              vadRan |-> ~skipVad, voice |-> haveVoice,
                                              initFailed |-> FALSE]],
              toAsr      |-> toAsr,
              firstVoice |-> firstVoice,
              flushed    |-> asrBuffer1,
              speaking   |-> clientHaveVoice]

\* The decode activity takes the next frame from the channel and runs one
\* iteration of its loop (a frame taken while voice-stop is set is discarded).
\* initVAD and IsVAD only fail in the scenario with VAD failures.
DecodeFrame(initOk, errs) ==
    /\ opusAudioBuffer # <<>>
    /\ scenario # "faulty" => initOk /\ errs = {}
    /\ vad.voiceStop => initOk /\ errs = {}
    /\ errs \subseteq 1..(Len(vad.byteBuffer) + 1)
    /\ LET f == Head(opusAudioBuffer)
           r == ProcessFrame(f, initOk, errs)
       IN  /\ dequeued' = [count |-> dequeued.count + 1, last |-> f.id]
           /\ IF vad.voiceStop
              THEN UNCHANGED <<vad, asrSent, utterance>>
              ELSE /\ vad' = r.vad
                   /\ asrSent' = asrSent \o r.toAsr
                   /\ utterance' = IF r.firstVoice THEN r.flushed
                                   ELSE IF r.speaking /\ ~r.vad.voiceStop
                                        THEN Append(utterance, f.id)
                                        ELSE utterance
    /\ opusAudioBuffer' = Tail(opusAudioBuffer)
    /\ UNCHANGED <<scenario, inFrameDuration, listenMode, audioNow, pushed, allVoiced,
                   recvResult, accepted>>
    /\ UNCHANGED nonAudioVars

\* The decode activity takes a step.
Decode == \E initOk \in BOOLEAN : \E errs \in SUBSET (1..FaultFrames) : DecodeFrame(initOk, errs)

AudioNext ==
    \/ AudioTick
    \/ \E voiced \in BOOLEAN : RecvAudio(voiced)
    \/ \E mode \in ListenModes : ListenStart(mode)
    \/ \E initOk \in BOOLEAN : \E errs \in SUBSET (1..FaultFrames) : DecodeFrame(initOk, errs)

\* handleListenMessage, state detect, as the decode activity sees it: the
\* wake-word message clears the have-voice flag of the session.
DetectClearsHaveVoice ==
    /\ scenario = "speech"
    /\ vad.haveVoice
    /\ vad' = [vad EXCEPT !.haveVoice = FALSE]
    /\ UNCHANGED <<scenario, inFrameDuration, listenMode, audioNow, pushed, allVoiced,
                   recvResult, opusAudioBuffer, accepted, dequeued, asrSent, utterance>>
    /\ UNCHANGED nonAudioVars

\* The audio pipe of a session that also gets wake-word messages.
PreRollNext ==
    \/ AudioTick
    \/ \E voiced \in BOOLEAN : RecvAudio(voiced)
    \/ \E mode \in ListenModes : ListenStart(mode)
    \/ \E initOk \in BOOLEAN : \E errs \in SUBSET (1..FaultFrames) : DecodeFrame(initOk, errs)
    \/ DetectClearsHaveVoice

----------------------------------------------------------------------------
(* Text messages of the session: handleListenMessage, handleAbortMessage,   *)
(* startChat and HandleLLMResponse                                          *)

\* Bound on the listen and abort messages handled in one behaviour.
MaxClientMsgs == 2

\* Bound on the number of sentences of one LLM response.
MaxChatSentences == 2

\* GetMessagesForLLM(ctx, deviceID, 10): the number of messages asked for.
HistoryLimit == 10

\* Configuration wakeup_words.
WakeupWords == { <<"x">> }

\* The runes for which unicode.IsPunct or unicode.IsSpace holds.
Punctuation == {"!", " "}

\* The texts a listen message carries, as sequences of runes.
DetectTexts == { <<>>, <<"x", "!">>, <<" ", "y">>, <<"!">> }

\* A mistaken version of removePunctuation that keeps every rune.
removePunctuationKeepAll(text) == text

\* removePunctuation: the runes of text that are neither punctuation nor space.
removePunctuation(text) == SelectSeq(text, LAMBDA r : r \notin Punctuation)

\* isWakeupWord: text equals one of the configured wake words.
isWakeupWord(text) == \E word \in WakeupWords : text = word

\* The i-th sentence of an LLM response.
SentenceText(i) == IF i % 2 = 1 THEN <<"a">> ELSE <<"b", "c">>

\* The sentences the LLM stream delivers: the first is flagged IsStart, and
\* the last is flagged IsEnd unless the LLM failed before the end of the
\* response, in which case the channel is closed after n sentences.
LlmStream(n, complete) ==
    [i \in 1..n |-> [text    |-> SentenceText(i),
                     isStart |-> i = 1,
                     isEnd   |-> complete /\ i = n]]

\* GetMessagesForLLM: the last limit messages of the memory.
GetMessagesForLLM(limit) ==
    LET len == Len(chatMemory)
    IN  [i \in 1..(IF len > limit THEN limit ELSE len) |->
            chatMemory[i + (IF len > limit THEN len - limit ELSE 0)].content]

\* Every listen message starts at most one run.
RunIds == 1..MaxClientMsgs

\* The goroutine startChat starts: HandleLLMResponse at its select.
NewRun(d, stream) ==
    [detect |-> d, stream |-> stream, next |-> 1, cur |-> 0, pc |-> "select",
     fullText |-> <<>>, ctxDone |-> FALSE, abortedAt |-> 0, result |-> "none"]

\* A ServerMessage passed to SendMsg by the handler of client message d or by
\* run r (0 when the handler sends it); err tells that SendMsg failed.
ServerMessage(type, state, text, d, r, err) ==
    [type |-> type, state |-> state, text |-> text, detect |-> d, run |-> r, err |-> err]

ChatStart ==
    /\ clientMsgs = <<>>
    /\ runs = <<>>
    /\ chatLog = <<>>
    /\ chatMemory = <<>>
    /\ llmRequests = <<>>

\* Two kinds of input.  "dialogue": the providers and the transport work (the
\* LLM may refuse a request), responses have one sentence, any number of
\* listen messages.  "faults": one response, of any length, during which the
\* providers and the transport may fail and the client may abort.
ChatInit ==
    /\ chatScenario \in {"dialogue", "faults"}
    /\ enableGreeting \in BOOLEAN
    /\ ChatStart

\* No text message arrives.
ChatIdle == chatScenario = "dialogue" /\ enableGreeting = FALSE /\ ChatStart

\* The inputs of a step are those of the scenario.
NoFault(ok) == chatScenario = "dialogue" => ok

audioVarsButVad == <<scenario, inFrameDuration, listenMode, audioNow, pushed, allVoiced,
                     recvResult, opusAudioBuffer, accepted, dequeued, asrSent, utterance>>

\* startChat: the user message is appended to the memory, the request is
\* handed to the LLM and, unless that fails, a goroutine runs
\* HandleLLMResponse on the returned channel.  Nothing looks at the runs the
\* session already has.
startChat(d, text, llmOk, n, complete) ==
    /\ llmRequests' = Append(llmRequests,
                             [detect |-> d, messages |-> Append(GetMessagesForLLM(HistoryLimit), text)])
    /\ chatMemory' = Append(chatMemory, [role |-> "user", content |-> text, detect |-> d, run |-> 0])
    /\ runs' = IF llmOk THEN Append(runs, NewRun(d, LlmStream(n, complete))) ELSE runs

\* handleListenMessage, state detect.  llmOk, n and complete are what the LLM
\* does with the request, sendOk what SendMsg returns.
ListenDetect(text, sendOk, llmOk, n, complete) ==
    /\ Len(clientMsgs) < MaxClientMsgs
    /\ chatScenario = "dialogue" => n = 1 /\ complete
    /\ chatScenario = "faults" => runs = <<>> /\ text # <<>>
    /\ clientMsgs' = Append(clientMsgs, [type |-> "listen", state |-> "detect", text |-> text])
    /\ vad' = [vad EXCEPT !.haveVoice = FALSE]
    /\ LET d == Len(clientMsgs) + 1
           stripped == removePunctuation(text)
       IN  IF text = <<>>
           THEN /\ sendOk /\ llmOk /\ n = 1 /\ complete
                /\ UNCHANGED <<runs, chatLog, chatMemory, llmRequests>>
           ELSE IF isWakeupWord(stripped) /\ ~enableGreeting
           THEN /\ llmOk /\ n = 1 /\ complete
                /\ chatLog' = Append(chatLog, ServerMessage("stt", "", stripped, d, 0, ~sendOk))
                /\ UNCHANGED <<runs, chatMemory, llmRequests>>
           ELSE /\ sendOk
                /\ startChat(d, stripped, llmOk, n, complete)
                /\ UNCHANGED chatLog
    /\ UNCHANGED <<chatScenario, enableGreeting, audioVarsButVad>>
    /\ UNCHANGED nonChatVars

\* handleAbortMessage: the session context is cancelled, and with it the
\* context of every run derived from it; the abort reply is sent.
HandleAbort(sendOk) ==
    /\ chatScenario = "faults"
    /\ Len(clientMsgs) < MaxClientMsgs
    /\ clientMsgs' = Append(clientMsgs, [type |-> "abort", state |-> "", text |-> <<>>])
    /\ runs' = [r \in DOMAIN runs |->
                  IF runs[r].pc = "done" \/ runs[r].ctxDone
                  THEN runs[r]
                  ELSE [runs[r] EXCEPT !.ctxDone = TRUE, !.abortedAt = runs[r].next]]
    /\ chatLog' = Append(chatLog,
                         ServerMessage("abort", "success", <<>>, Len(clientMsgs) + 1, 0, ~sendOk))
    /\ UNCHANGED <<chatScenario, enableGreeting, chatMemory, llmRequests, audioVars>>
    /\ UNCHANGED nonChatVars

\* What a run leaves alone.
RunUnchanged ==
    /\ UNCHANGED <<chatScenario, enableGreeting, clientMsgs, llmRequests, audioVars>>
    /\ UNCHANGED nonChatVars

\* HandleLLMResponse returns; startChat's goroutine cancels the run's context
\* when it returned an error.
Return(r, result, isErr) ==
    [runs EXCEPT ![r].pc = "done", ![r].result = result,
                 ![r].ctxDone = runs[r].ctxDone \/ isErr]

\* HandleLLMResponse, select: the channel is closed.
RunChanClosed(r) ==
    /\ r \in DOMAIN runs
    /\ runs[r].pc = "select"
    /\ runs[r].next > Len(runs[r].stream)
    /\ runs' = Return(r, "llmClosed", FALSE)
    /\ UNCHANGED <<chatLog, chatMemory>>
    /\ RunUnchanged

\* HandleLLMResponse, select: the context is done.
RunCtxDone(r) ==
    /\ r \in DOMAIN runs
    /\ runs[r].pc = "select"
    /\ runs[r].ctxDone
    /\ runs' = Return(r, "cancelled", FALSE)
    /\ UNCHANGED <<chatLog, chatMemory>>
    /\ RunUnchanged

\* msgs passed to SendMsg one after the other, the failAt-th call failing
\* (0: none fails).
SendAll(msgs, failAt) ==
    IF failAt = 0
    THEN msgs
    ELSE [i \in 1..failAt |-> IF i = failAt THEN [msgs[i] EXCEPT !.err = TRUE] ELSE msgs[i]]

\* The messages sent before the audio of sentence s: tts start for the
\* sentence flagged IsStart, then sentence_start.
MarkersBefore(r, s) ==
    (IF s.isStart THEN <<ServerMessage("tts", "start", <<>>, runs[r].detect, r, FALSE)>>
                  ELSE <<>>)
      \o <<ServerMessage("tts", "sentence_start", s.text, runs[r].detect, r, FALSE)>>

\* The messages sent after the audio of sentence s: sentence_end, then tts
\* stop for the sentence flagged IsEnd.
MarkersAfter(r, s) ==
    <<ServerMessage("tts", "sentence_end", s.text, runs[r].detect, r, FALSE)>>
      \o (IF s.isEnd THEN <<ServerMessage("tts", "stop", <<>>, runs[r].detect, r, FALSE)>>
                     ELSE <<>>)

\* HandleLLMResponse, select: a sentence is received from the channel (a
\* select whose context is done as well may still take this case); then
\* TextToSpeechStream, tts start, sentence_start and fullText.
RunSentence(r, ttsOk, failAt) ==
    /\ r \in DOMAIN runs
    /\ runs[r].pc = "select"
    /\ runs[r].next <= Len(runs[r].stream)
    /\ NoFault(ttsOk /\ failAt = 0)
    /\ LET s == runs[r].stream[runs[r].next]
       IN  /\ failAt <= Len(MarkersBefore(r, s))
           /\ IF ~ttsOk
              THEN /\ failAt = 0
                   /\ runs' = Return(r, "ttsFailed", TRUE)
                   /\ UNCHANGED chatLog
              ELSE /\ chatLog' = chatLog \o SendAll(MarkersBefore(r, s), failAt)
                   /\ runs' = IF failAt # 0
                              THEN Return(r, "sendFailed", TRUE)
                              ELSE [runs EXCEPT ![r].pc = "audio",
                                                ![r].cur = runs[r].next,
                                                ![r].next = runs[r].next + 1,
                                                ![r].fullText = runs[r].fullText \o s.text]
    /\ UNCHANGED chatMemory
    /\ RunUnchanged

\* HandleLLMResponse, the rest of the sentence: SendTTSAudio, which returns
\* nil when the audio channel is closed and when the context is done, or an
\* error; then sentence_end and, after the sentence flagged IsEnd, the
\* assistant message appended to the memory and tts stop.
RunAudio(r, audioOk, failAt) ==
    /\ r \in DOMAIN runs
    /\ runs[r].pc = "audio"
    /\ NoFault(audioOk /\ failAt = 0)
    /\ LET s == runs[r].stream[runs[r].cur]
       IN  /\ failAt <= Len(MarkersAfter(r, s))
           /\ IF ~audioOk
              THEN /\ failAt = 0
                   /\ runs' = Return(r, "ttsFailed", TRUE)
                   /\ UNCHANGED <<chatLog, chatMemory>>
              ELSE /\ chatLog' = chatLog \o SendAll(MarkersAfter(r, s), failAt)
                   /\ chatMemory' =
                        IF s.isEnd /\ failAt # 1
                        THEN Append(chatMemory,
                                    [role |-> "assistant", content |-> runs[r].fullText,
                                     detect |-> runs[r].detect, run |-> r])
                        ELSE chatMemory
                   /\ runs' = CASE failAt = 1 -> Return(r, "sendFailed", TRUE)
                                []  failAt = 2 -> Return(r, "stopFailed", TRUE)
                                []  s.isEnd    -> Return(r, "ok", FALSE)
                                []  OTHER      -> [runs EXCEPT ![r].pc = "select"]
    /\ RunUnchanged

ChatNext ==
    \/ \E text \in DetectTexts : \E sendOk, llmOk, complete \in BOOLEAN :
         \E n \in 1..MaxChatSentences : ListenDetect(text, sendOk, llmOk, n, complete)
    \/ \E sendOk \in BOOLEAN : HandleAbort(sendOk)
    \/ \E r \in RunIds : RunChanClosed(r)
    \/ \E r \in RunIds : RunCtxDone(r)
    \/ \E r \in RunIds : \E ttsOk \in BOOLEAN : \E failAt \in 0..2 :
         RunSentence(r, ttsOk, failAt)
    \/ \E r \in RunIds : \E audioOk \in BOOLEAN : \E failAt \in 0..2 :
         RunAudio(r, audioOk, failAt)

----------------------------------------------------------------------------
(* Functions of the session whose answer depends on their arguments only *)

MaxBranchMsgs == 3

NoCall == [fn |-> "none"]

NoResult == [done |-> FALSE]

Returned(value) == [done |-> TRUE, value |-> value]

\* The messages a branch input is made of: a user message, an assistant
\* message with a tool call, and tool results with and without the mark.
BranchMsgs ==
    {Msg("user", Text, <<>>, ""),
     Msg("assistant", <<>>, <<[id |-> "c1", name |-> "tool"]>>, "")}
        \cup {Msg("tool", out, <<>>, "c1") : out \in ToolOutputs}

BranchInputs == UNION {[1..n -> BranchMsgs] : n \in 0..MaxBranchMsgs}

BranchCalls == {[fn |-> "afterToolCallBranchCondition", input |-> input] : input \in BranchInputs}

MaxRows == 3

\* The conversation_messages tables GetMessages is applied to: rows of the
\* sessions in any insertion order; the content of a row tells it apart.
Tables ==
    UNION {[1..n -> [sessionID : SessionIDs, sequenceNum : 1..MaxRows]] : n \in 0..MaxRows}

GetMessagesCalls ==
    [fn : {"GetMessages"}, table : Tables, agentID : AgentIDs, count : 1..(MaxRows + 1)]

\* The rows of the table with session_id = sid, by their position.
RowsOf(table, sid) == {i \in 1..Len(table) : table[i].sessionID = sid}

\* Where(session_id).Order("sequence_num DESC").Limit(count).Find: the answers
\* the database may give, as lists of row positions.  Rows with the same
\* sequence number come in either order.
OrderDescLimit(table, sid, count) ==
    LET rows == RowsOf(table, sid)
        n == IF count < Cardinality(rows) THEN count ELSE Cardinality(rows)
    IN  {r \in [1..n -> rows] :
            /\ \A j, k \in 1..n : j < k =>
                  r[j] # r[k] /\ table[r[j]].sequenceNum >= table[r[k]].sequenceNum
            /\ \A i \in rows \ {r[j] : j \in 1..n} :
                  \A j \in 1..n : table[i].sequenceNum <= table[r[j]].sequenceNum}

\* A mistaken copy that keeps the order of the query.
KeepOrder(messages) == messages

\* result[len(messages)-1-i] = messages[i]
ReverseOrder(messages) == [i \in 1..Len(messages) |-> messages[Len(messages) + 1 - i]]

\* convertToSchemaMessage, for a row of plain text: the content of the row.
convertToSchemaMessage(table, i) == [content |-> i]

\* Texts are sequences of pieces: a piece is a run of ordinary characters, or
\* one of the characters that matter to JSON.  White space between the
\* tokens of a JSON text is left out.
Quote == "\""

Backslash == "\\"

\* City values: the empty string, the word the location lookup uses for an
\* unknown city, the city it reports for a local address, and a real city.
UnknownCity == "unknown"

Cities == {"", UnknownCity, "local", "Hangzhou"}

\* What GetWeatherByCity comes to: an answer, or one of its errors.  The
\* error of http.Client.Do is a *url.Error, whose text quotes the URL:
\*     Get "https://restapi.amap.com/...": context deadline exceeded
ApiOutcomes == {"ok", "no_key", "request_failed", "bad_status", "no_data"}

ApiError(outcome) ==
    CASE outcome = "no_key" -> <<"api key not configured">>
      [] outcome = "request_failed" ->
            <<"request failed: ", "Get ", Quote, "https://restapi.amap.com", Quote, ": timeout">>
      [] outcome = "bad_status" -> <<"amap error: ", "INVALID_USER_KEY">>
      [] outcome = "no_data" -> <<"no weather data">>

RECURSIVE EscapeJson(_)
\* json.Marshal of a string: quotes and backslashes are escaped.
EscapeJson(text) ==
    IF text = <<>>
    THEN <<>>
    ELSE (IF Head(text) \in {Quote, Backslash} THEN <<Backslash, Head(text)>> ELSE <<Head(text)>>)
             \o EscapeJson(Tail(text))

\* `{"success": false, "error": "...%s"}` with the message put in place of %s as it is.
SprintfError(what, message) ==
    <<"{", Quote, "success", Quote, ":", "false", ",", Quote, "error", Quote, ":", Quote, what>>
        \o message \o <<Quote, "}">>

\* `{"success": false, "error": "..."}`, a constant of the source.
NoCityError == SprintfError("no city given and no location of the user", <<>>)

\* json.Marshal of the result map, of which the city stands for all fields.
MarshalResult(city) ==
    <<"{", Quote, "success", Quote, ":", "true", ",", Quote, "city", Quote, ":", Quote>>
        \o EscapeJson(<<city>>) \o <<Quote, "}">>

WeatherTools == {"LocalMcpGetWeather", "LocalMcpGetWeatherForecast"}

\* The words that open the error text of each tool.
FailureText == [LocalMcpGetWeather |-> "weather query failed: ",
                LocalMcpGetWeatherForecast |-> "forecast query failed: "]

\* The city the tool asks the API about: the one given, or else the city of
\* clientState.LocationInfo unless that is empty or the unknown city.
ResolvedCity(city, locationCity) ==
    IF city = "" /\ locationCity # "" /\ locationCity # UnknownCity
    THEN locationCity
    ELSE city

\* LocalMcpGetWeather / LocalMcpGetWeatherForecast: the text and the error
\* returned, and the city the weather API was asked about, if it was.
LocalMcpGetWeather(tool, city, locationCity, outcome) ==
    LET resolved == ResolvedCity(city, locationCity)
    IN  IF resolved = ""
        THEN [text |-> NoCityError, err |-> "nil", asked |-> <<>>]
        ELSE IF outcome # "ok"
             THEN [text |-> SprintfError(FailureText[tool], ApiError(outcome)),
                   err |-> "nil", asked |-> <<resolved>>]
             ELSE [text |-> MarshalResult(resolved), err |-> "nil", asked |-> <<resolved>>]

WeatherCalls ==
    [fn : WeatherTools, city : {"", "Paris"}, locationCity : Cities, outcome : ApiOutcomes]

Calls == BranchCalls \cup GetMessagesCalls \cup WeatherCalls

CallIdle == fnCall = NoCall /\ fnResult = NoResult

CallInit == fnCall \in Calls /\ fnResult = NoResult


\* The list branch after the ToolCallResult node is evaluated on its input.
EvalAfterToolCallBranch ==
    /\ fnCall.fn = "afterToolCallBranchCondition"
    /\ ~fnResult.done
    /\ fnResult' = Returned(afterToolCallBranchCondition(fnCall.input))
    /\ UNCHANGED fnCall
    /\ UNCHANGED nonCallVars

\* PGMemory.GetMessages: the newest count rows of the session, oldest first.
GetMessages ==
    /\ fnCall.fn = "GetMessages"
    /\ ~fnResult.done
    /\ \E messages \in OrderDescLimit(fnCall.table, parseAgentID(fnCall.agentID).sessionID,
                                       fnCall.count) :
          fnResult' = Returned(ReverseOrder(
                          [i \in 1..Len(messages) |-> convertToSchemaMessage(fnCall.table, messages[i])]))
    /\ UNCHANGED fnCall
    /\ UNCHANGED nonCallVars

\* A weather tool is called by the LLM with the city it chose, or none.
CallWeatherTool ==
    /\ fnCall.fn \in WeatherTools
    /\ ~fnResult.done
    /\ fnResult' = Returned(LocalMcpGetWeather(fnCall.fn, fnCall.city, fnCall.locationCity,
                                               fnCall.outcome))
    /\ UNCHANGED fnCall
    /\ UNCHANGED nonCallVars

CallNext ==
    \/ EvalAfterToolCallBranch
    \/ GetMessages
    \/ CallWeatherTool

----------------------------------------------------------------------------
(* The audio collector: AddUserAudio/AddTTSAudio, SaveUserAudio/SaveTTSAudio, Clear *)

MaxCollectorOps == 4

Sides == {"user", "tts"}

\* The lengths of the data given to one Add call.
ChunkLens == 0..2

\* The next n bytes; each byte handed to the collector is told apart by its number.
NewBytes(n) == [i \in 1..n |-> bytesAdded + i]

\* NewAudioCollector enables both sides, and SetEnabled has no caller.
Enabled(side) == TRUE

\* NewAudioCollector: both buffers are empty.
CollectorInit ==
    /\ audioData = [side \in Sides |-> <<>>]
    /\ bytesAdded = 0
    /\ saveCalls = <<>>
    /\ saveEvents = <<>>
    /\ collectorLog = <<>>

\* A mistaken getter that hands out the buffer and keeps it.
AfterGetKeep(data, side) == data

\* GetUserAudio / GetTTSAudio: the side's buffer is replaced by an empty one.
AfterGet(data, side) == [data EXCEPT ![side] = <<>>]

\* AddUserAudio / AddTTSAudio: nothing when the side is disabled or the data
\* is empty; otherwise the data is appended under the mutex.
AddAudio(side, n) ==
    /\ Len(collectorLog) < MaxCollectorOps
    /\ LET data == NewBytes(n)
       IN  /\ audioData' = IF ~Enabled(side) \/ Len(data) = 0
                           THEN audioData
                           ELSE [audioData EXCEPT ![side] = @ \o data]
           /\ collectorLog' = Append(collectorLog, [op |-> "add", side |-> side, data |-> data])
    /\ bytesAdded' = bytesAdded + n
    /\ UNCHANGED <<saveCalls, saveEvents>>
    /\ UNCHANGED nonCollectorVars

\* The first statement of SaveUserAudio / SaveTTSAudio: GetUserAudio or
\* GetTTSAudio takes the buffer under the mutex.
GetAudio(side) ==
    /\ Len(collectorLog) < MaxCollectorOps
    /\ saveCalls' = Append(saveCalls, [side |-> side, data |-> audioData[side], pc |-> "publish"])
    /\ audioData' = AfterGet(audioData, side)
    /\ collectorLog' = Append(collectorLog, [op |-> "get", side |-> side, call |-> Len(saveCalls) + 1])
    /\ UNCHANGED <<bytesAdded, saveEvents>>
    /\ UNCHANGED nonCollectorVars

SaveCallIds == 1..MaxCollectorOps

\* The rest of SaveUserAudio / SaveTTSAudio: return when the data is empty,
\* publish the save_audio event otherwise.
SaveAudio(k) ==
    /\ k \in DOMAIN saveCalls
    /\ saveCalls[k].pc = "publish"
    /\ saveEvents' = IF Len(saveCalls[k].data) = 0
                     THEN saveEvents
                     ELSE Append(saveEvents, [sourceType |-> saveCalls[k].side,
                                              audioData |-> saveCalls[k].data,
                                              call |-> k])
    /\ saveCalls' = [saveCalls EXCEPT ![k].pc = "done"]
    /\ UNCHANGED <<audioData, bytesAdded, collectorLog>>
    /\ UNCHANGED nonCollectorVars

\* Clear: both buffers are replaced by empty ones.
Clear ==
    /\ Len(collectorLog) < MaxCollectorOps
    /\ audioData' = [side \in Sides |-> <<>>]
    /\ collectorLog' = Append(collectorLog, [op |-> "clear"])
    /\ UNCHANGED <<bytesAdded, saveCalls, saveEvents>>
    /\ UNCHANGED nonCollectorVars

CollectorNext ==
    \/ \E side \in Sides, n \in ChunkLens : AddAudio(side, n)
    \/ \E side \in Sides : GetAudio(side)
    \/ \E k \in SaveCallIds : SaveAudio(k)
    \/ Clear

----------------------------------------------------------------------------
(* The session manager: NewChatManager, Close, OnClose, and the activities *)
(* that run under the manager's context                                    *)

\* The contexts: cm.ctx, clientState.Ctx made from it, and the context of a
\* run, made from clientState.Ctx.
Contexts == {"manager", "client", "run"}

Parent == [client |-> "manager", run |-> "client"]

RECURSIVE DerivedFrom(_, _)
\* Context c is ctx or was made from it, directly or through other contexts.
DerivedFrom(c, ctx) ==
    \/ c = ctx
    \/ c \in DOMAIN Parent /\ DerivedFrom(Parent[c], ctx)

\* A mistaken cancel function that cancels nothing.
cancelNothing(done, ctx) == done

\* The cancel function of context.WithCancel: the context and every context
\* derived from it are done.
cancel(done, ctx) == [c \in Contexts |-> done[c] \/ DerivedFrom(c, ctx)]

\* The activities and the context each one selects on: the location lookup
\* and the decode loop (clientState.Ctx), and, under the context of a run,
\* HandleLLMResponse and the wait of a synchronous handleTextResponse.
Activities == {"location", "decode", "llm", "tts"}

RunActivities == {"llm", "tts"}

CtxOf == [location |-> "client", decode |-> "client", llm |-> "run", tts |-> "run"]

\* After NewChatManager and Start: the contexts are live, the location lookup
\* and the decode loop run, no run has started.
ManagerInit ==
    /\ ctxDone = [c \in Contexts |-> FALSE]
    /\ activity = [a \in Activities |-> IF a \in RunActivities THEN "none" ELSE "running"]
    /\ sessionResources = "open"
    /\ closeLog = <<>>

\* A message of the client starts a run with a context of its own, made from
\* clientState.Ctx.  No message arrives once the session was closed.
StartRun ==
    /\ closeLog = <<>>
    /\ \A a \in RunActivities : activity[a] # "running"
    /\ activity' = [a \in Activities |-> IF a \in RunActivities THEN "running" ELSE activity[a]]
    /\ ctxDone' = [ctxDone EXCEPT !["run"] = ctxDone["client"]]
    /\ UNCHANGED <<sessionResources, closeLog>>
    /\ UNCHANGED nonManagerVars

\* The location lookup or an activity of the run comes to its end.
Finish(a) ==
    /\ a \in {"location"} \cup RunActivities
    /\ activity[a] = "running"
    /\ activity' = [activity EXCEPT ![a] = "returned"]
    /\ UNCHANGED <<ctxDone, sessionResources, closeLog>>
    /\ UNCHANGED nonManagerVars

\* HandleAbort cancels the context of the run.
AbortRun ==
    /\ \E a \in RunActivities : activity[a] = "running"
    /\ ~ctxDone["run"]
    /\ ctxDone' = cancel(ctxDone, "run")
    /\ UNCHANGED <<activity, sessionResources, closeLog>>
    /\ UNCHANGED nonManagerVars

\* The activity's select takes the case <-ctx.Done() and returns.
ObserveDone(a) ==
    /\ activity[a] = "running"
    /\ ctxDone[CtxOf[a]]
    /\ activity' = [activity EXCEPT ![a] = "cancelled"]
    /\ UNCHANGED <<ctxDone, sessionResources, closeLog>>
    /\ UNCHANGED nonManagerVars

\* c.session.Close(): the session-level resources are closed.
SessionClose(resources) == "closed"

\* ChatManager.Close: c.session.Close(), then c.cancel().
ManagerClose ==
    /\ \A i \in 1..Len(closeLog) : closeLog[i] # "Close"
    /\ sessionResources' = SessionClose(sessionResources)
    /\ ctxDone' = cancel(ctxDone, "manager")
    /\ closeLog' = Append(closeLog, "Close")
    /\ UNCHANGED activity
    /\ UNCHANGED nonManagerVars

\* ChatManager.OnClose, registered with transport.OnClose: c.cancel().
OnClose ==
    /\ \A i \in 1..Len(closeLog) : closeLog[i] # "OnClose"
    /\ ctxDone' = cancel(ctxDone, "manager")
    /\ closeLog' = Append(closeLog, "OnClose")
    /\ UNCHANGED <<activity, sessionResources>>
    /\ UNCHANGED nonManagerVars

ManagerNext ==
    \/ StartRun
    \/ \E a \in Activities : Finish(a)
    \/ AbortRun
    \/ \E a \in Activities : ObserveDone(a)
    \/ ManagerClose
    \/ OnClose

----------------------------------------------------------------------------
(* The pool of VAD instances: initialize, AcquireVAD, ReleaseVAD *)

\* maxSize of the pool, and the instances initialize creates.
PoolMaxSize == 2

VADs == 1..PoolMaxSize

\* acquireTimeout, in ms, and the step of the clock.
AcquireTimeout == 3000

PoolTickMs == 1500

PoolSessions == {"s1", "s2", "s3"}

\* A session outside a call: vad is the instance AcquireVAD gave it and it has
\* not released (0: none), ref the instance its variable still names.
IdleAcquirer ==
    [pc |-> "idle", vad |-> 0, ref |-> 0, waited |-> 0, atCall |-> "none", result |-> "none"]

\* InitVAD: the pool exists and is not initialized.
PoolInit ==
    /\ poolInitialized = FALSE
    /\ availableVADs = <<>>
    /\ allocatedVADs = {}
    /\ closedVADs = {}
    /\ acquirer = [s \in PoolSessions |-> IdleAcquirer]

\* initVADResourcePool: initialize fills the channel with maxSize instances.
initialize ==
    /\ ~poolInitialized
    /\ availableVADs' = [i \in 1..PoolMaxSize |-> i]
    /\ poolInitialized' = TRUE
    /\ UNCHANGED <<allocatedVADs, closedVADs, acquirer>>
    /\ UNCHANGED nonPoolVars

\* A mistaken timer that has fired from the start.
TimerFiredAtOnce(waited) == TRUE

\* time.After(acquireTimeout): the timer's channel is ready once the time is up.
TimerFired(waited) == waited >= AcquireTimeout

\* The session takes the instance: it is stored as allocated and returned.
Receive(a, inst) == [a EXCEPT !.pc = "idle", !.vad = inst, !.ref = inst, !.result = "ok"]

\* AcquireVAD up to the first evaluation of its select: an error when the pool
\* is not initialized; otherwise the case that is ready is taken (either one
\* when both are), and the session waits when none is.
AcquireStart(s) ==
    /\ acquirer[s].pc = "idle"
    /\ acquirer[s].vad = 0
    /\ LET a == [acquirer[s] EXCEPT
                    !.waited = 0,
                    !.atCall = IF ~poolInitialized THEN "uninitialized"
                               ELSE IF availableVADs # <<>> THEN "available" ELSE "empty"]
       IN  \/ /\ ~poolInitialized
              /\ acquirer' = [acquirer EXCEPT ![s] = [a EXCEPT !.result = "error"]]
              /\ UNCHANGED <<availableVADs, allocatedVADs>>
           \/ /\ poolInitialized
              /\ availableVADs # <<>>
              /\ acquirer' = [acquirer EXCEPT ![s] = Receive(a, Head(availableVADs))]
              /\ availableVADs' = Tail(availableVADs)
              /\ allocatedVADs' = allocatedVADs \cup {Head(availableVADs)}
           \/ /\ poolInitialized
              /\ TimerFired(0)
              /\ acquirer' = [acquirer EXCEPT ![s] = [a EXCEPT !.result = "timeout"]]
              /\ UNCHANGED <<availableVADs, allocatedVADs>>
           \/ /\ poolInitialized
              /\ availableVADs = <<>>
              /\ ~TimerFired(0)
              /\ acquirer' = [acquirer EXCEPT ![s] = [a EXCEPT !.pc = "select", !.result = "pending"]]
              /\ UNCHANGED <<availableVADs, allocatedVADs>>
    /\ UNCHANGED <<poolInitialized, closedVADs>>
    /\ UNCHANGED nonPoolVars

\* case <-timeout: an error is returned.
AcquireTimedOut(s) ==
    /\ acquirer[s].pc = "select"
    /\ TimerFired(acquirer[s].waited)
    /\ acquirer' = [acquirer EXCEPT ![s] = [@ EXCEPT !.pc = "idle", !.result = "timeout"]]
    /\ UNCHANGED <<poolInitialized, availableVADs, allocatedVADs, closedVADs>>
    /\ UNCHANGED nonPoolVars

\* Time passes for the sessions that wait in the select.
PoolTick ==
    /\ \E s \in PoolSessions : acquirer[s].pc = "select" /\ ~TimerFired(acquirer[s].waited)
    /\ acquirer' = [s \in PoolSessions |->
          IF acquirer[s].pc = "select" /\ ~TimerFired(acquirer[s].waited)
          THEN [acquirer[s] EXCEPT !.waited = @ + PoolTickMs]
          ELSE acquirer[s]]
    /\ UNCHANGED <<poolInitialized, availableVADs, allocatedVADs, closedVADs>>
    /\ UNCHANGED nonPoolVars

\* ReleaseVAD up to the lookup in the map of allocated instances: the session
\* hands in the instance its variable names, for the first time or again.
\* Nothing happens when the pool is not initialized or the instance is not in
\* the map.
ReleaseLoad(s) ==
    /\ acquirer[s].pc = "idle"
    /\ acquirer[s].ref # 0
    /\ acquirer' = [acquirer EXCEPT ![s] =
          [@ EXCEPT !.vad = 0,
                    !.pc = IF poolInitialized /\ acquirer[s].ref \in allocatedVADs
                           THEN "put" ELSE "idle"]]
    /\ UNCHANGED <<poolInitialized, availableVADs, allocatedVADs, closedVADs>>
    /\ UNCHANGED nonPoolVars

\* The rest of ReleaseVAD: the instance is deleted from the map and sent to
\* the channel, or closed when the channel is full.  A send to a channel on
\* which a session waits goes to that session directly: case vad :=
\* <-p.availableVADs of its select.
ReleasePut(s) ==
    /\ acquirer[s].pc = "put"
    /\ LET inst == acquirer[s].ref
           done == [acquirer EXCEPT ![s] = [@ EXCEPT !.pc = "idle"]]
           waiting == {t \in PoolSessions : acquirer[t].pc = "select"}
       IN  IF waiting # {}
           THEN /\ \E t \in waiting : acquirer' = [done EXCEPT ![t] = Receive(@, inst)]
                /\ allocatedVADs' = (allocatedVADs \ {inst}) \cup {inst}
                /\ UNCHANGED <<availableVADs, closedVADs>>
           ELSE /\ acquirer' = done
                /\ allocatedVADs' = allocatedVADs \ {inst}
                /\ IF Len(availableVADs) < PoolMaxSize
                   THEN availableVADs' = Append(availableVADs, inst) /\ UNCHANGED closedVADs
                   ELSE closedVADs' = closedVADs \cup {inst} /\ UNCHANGED availableVADs
    /\ UNCHANGED poolInitialized
    /\ UNCHANGED nonPoolVars

PoolNext ==
    \/ initialize
    \/ \E s \in PoolSessions : AcquireStart(s)
    \/ \E s \in PoolSessions : AcquireTimedOut(s)
    \/ PoolTick
    \/ \E s \in PoolSessions : ReleaseLoad(s)
    \/ \E s \in PoolSessions : ReleasePut(s)

(* VADResourcePool.Resize, next to AcquireVAD and ReleaseVAD, which do not   *)
(* take the pool's mutex.                                                    *)

\* Bound on the number of Resize calls of one behaviour.
MaxResizes == 1

\* The sizes Resize is called with.
Sizes == 1..(PoolMaxSize + 1)

ResizeIdle ==
    /\ maxSize = PoolMaxSize
    /\ created = 0
    /\ resizer = [pc |-> "idle", newSize |-> 0, left |-> 0, calls |-> 0]
    /\ resized = 0

nonPoolResizeVars ==
    <<memVars, ttsVars, graphVars, audioVars, chatVars,
      callVars, collectorVars, managerVars, syncVars, pipeVars, decodeVars>>

\* Resize(newSize), newSize > 0, up to its loops: a smaller size is written
\* to maxSize at once, an equal size returns nil.
ResizeStart(newSize) ==
    /\ poolInitialized
    /\ resizer.pc = "idle"
    /\ resizer.calls < MaxResizes
    /\ resizer' = [pc |-> IF newSize < maxSize THEN "shrink"
                          ELSE IF newSize > maxSize THEN "grow" ELSE "idle",
                   newSize |-> newSize,
                   left |-> IF newSize < maxSize THEN maxSize - newSize ELSE newSize - maxSize,
                   calls |-> resizer.calls + 1]
    /\ maxSize' = IF newSize < maxSize THEN newSize ELSE maxSize
    /\ resized' = IF newSize = maxSize THEN newSize ELSE resized
    /\ UNCHANGED created
    /\ UNCHANGED poolVars
    /\ UNCHANGED nonPoolResizeVars

\* One round of the loop of a shrinking Resize: an available instance is taken
\* and closed, or none is available (the break leaves the select only); after
\* the last round Resize returns nil.
ResizeShrink ==
    /\ resizer.pc = "shrink"
    /\ IF resizer.left = 0
       THEN /\ resizer' = [resizer EXCEPT !.pc = "idle"]
            /\ resized' = resizer.newSize
            /\ UNCHANGED <<availableVADs, closedVADs>>
       ELSE /\ resizer' = [resizer EXCEPT !.left = @ - 1]
            /\ UNCHANGED resized
            /\ IF availableVADs # <<>>
               THEN /\ availableVADs' = Tail(availableVADs)
                    /\ closedVADs' = closedVADs \cup {Head(availableVADs)}
               ELSE UNCHANGED <<availableVADs, closedVADs>>
    /\ UNCHANGED <<maxSize, created>>
    /\ UNCHANGED <<poolInitialized, allocatedVADs, acquirer>>
    /\ UNCHANGED nonPoolResizeVars

\* make(chan VAD, p.maxSize) in initialize: Resize keeps the channel, whose
\* capacity is the size the pool was initialized with.
ChannelCap == PoolMaxSize

\* One round of the loop of a growing Resize: an instance is created and sent
\* to the channel (to the session waiting on it, when there is one), or closed
\* when the channel is full; after the last round maxSize is written and
\* Resize returns nil.
ResizeGrow ==
    /\ resizer.pc = "grow"
    /\ IF resizer.left = 0
       THEN /\ resizer' = [resizer EXCEPT !.pc = "idle"]
            /\ maxSize' = resizer.newSize
            /\ resized' = resizer.newSize
            /\ UNCHANGED <<created, availableVADs, allocatedVADs, closedVADs, acquirer>>
       ELSE LET inst == PoolMaxSize + created + 1
                waiting == {t \in PoolSessions : acquirer[t].pc = "select"}
            IN  /\ resizer' = [resizer EXCEPT !.left = @ - 1]
                /\ created' = created + 1
                /\ UNCHANGED <<maxSize, resized>>
                /\ IF waiting # {}
                   THEN /\ \E t \in waiting :
                              acquirer' = [acquirer EXCEPT ![t] = Receive(@, inst)]
                        /\ allocatedVADs' = allocatedVADs \cup {inst}
                        /\ UNCHANGED <<availableVADs, closedVADs>>
                   ELSE /\ UNCHANGED <<acquirer, allocatedVADs>>
                        /\ IF Len(availableVADs) < ChannelCap
                           THEN /\ availableVADs' = Append(availableVADs, inst)
                                /\ UNCHANGED closedVADs
                           ELSE /\ closedVADs' = closedVADs \cup {inst}
                                /\ UNCHANGED availableVADs
    /\ UNCHANGED poolInitialized
    /\ UNCHANGED nonPoolResizeVars

\* The pool with Resize; no AcquireVAD waits long enough for its timer.
ResizeNext ==
    \/ initialize
    \/ \E s \in PoolSessions : AcquireStart(s)
    \/ \E s \in PoolSessions : ReleaseLoad(s)
    \/ \E s \in PoolSessions : ReleasePut(s)
    \/ \E newSize \in Sizes : ResizeStart(newSize)
    \/ ResizeShrink
    \/ ResizeGrow

(* The end of the decode/VAD activity started by ProcessVadAudio: its select *)
(* on the channel of opus frames and on the session context.                 *)

DecodeIdle ==
    /\ opusClosed = FALSE
    /\ sessionCtxDone = FALSE
    /\ decodeLoop = "running"

nonAudioDecodeVars ==
    <<memVars, ttsVars, graphVars, chatVars, callVars, collectorVars, managerVars, poolVars,
      syncVars, pipeVars, resizeVars>>

\* The channel of opus frames is closed: no frame is sent to it any more.
CloseOpusAudioBuffer ==
    /\ ~opusClosed
    /\ opusClosed' = TRUE
    /\ UNCHANGED <<sessionCtxDone, decodeLoop>>
    /\ UNCHANGED audioVars
    /\ UNCHANGED nonAudioDecodeVars

\* The session context is cancelled.
CancelSessionCtx ==
    /\ ~sessionCtxDone
    /\ sessionCtxDone' = TRUE
    /\ UNCHANGED <<opusClosed, decodeLoop>>
    /\ UNCHANGED audioVars
    /\ UNCHANGED nonAudioDecodeVars

\* What the loop does with a receive from the closed and drained channel
\* (ok is false): "if state.GetClientVoiceStop() { continue }" comes before
\* "if !ok { return }".
AfterClosedRecv(voiceStop) == IF voiceStop THEN "running" ELSE "returned"

\* case opusFrame, ok := <-state.OpusAudioBuffer on the closed, drained channel.
DecodeRecvClosed ==
    /\ decodeLoop = "running"
    /\ opusClosed /\ opusAudioBuffer = <<>>
    /\ decodeLoop' = AfterClosedRecv(vad.voiceStop)
    /\ UNCHANGED <<opusClosed, sessionCtxDone>>
    /\ UNCHANGED audioVars
    /\ UNCHANGED nonAudioDecodeVars

\* case <-state.Ctx.Done(): return
DecodeCtxDone ==
    /\ decodeLoop = "running"
    /\ sessionCtxDone
    /\ decodeLoop' = "returned"
    /\ UNCHANGED <<opusClosed, sessionCtxDone>>
    /\ UNCHANGED audioVars
    /\ UNCHANGED nonAudioDecodeVars

\* The audio pipe up to the end of the decode activity: frames are received
\* while the channel is open and decoded while the activity runs.
DecodeNext ==
    \/ AudioTick
    \/ \E voiced \in BOOLEAN : ~opusClosed /\ RecvAudio(voiced)
    \/ \E initOk \in BOOLEAN : \E errs \in SUBSET (1..FaultFrames) :
          decodeLoop = "running" /\ DecodeFrame(initOk, errs)
    \/ CloseOpusAudioBuffer
    \/ CancelSessionCtx
    \/ DecodeRecvClosed
    \/ DecodeCtxDone

\* The steps of the decode activity.
DecodeProgress ==
    \/ \E initOk \in BOOLEAN : \E errs \in SUBSET (1..FaultFrames) :
          decodeLoop = "running" /\ DecodeFrame(initOk, errs)
    \/ DecodeRecvClosed
    \/ DecodeCtxDone

AuxIdle == CallIdle /\ CollectorInit /\ ManagerInit /\ PoolInit /\ SyncIdle /\ PipeIdle /\ ResizeIdle
    /\ DecodeIdle

----------------------------------------------------------------------------
\* Each specification runs one part of the session; the other parts stay in
\* their initial state.
Init == MemInit /\ TtsIdle /\ GraphInit /\ AudioIdle /\ ChatIdle /\ AuxIdle

InitTts == MemInit /\ TtsInit /\ GraphInit /\ AudioIdle /\ ChatIdle /\ AuxIdle

InitAudio == MemInit /\ TtsIdle /\ GraphInit /\ AudioInit /\ ChatIdle /\ AuxIdle

InitChat == MemInit /\ TtsIdle /\ GraphInit /\ AudioIdle /\ ChatInit /\ AuxIdle

InitCalls ==
    /\ MemInit /\ TtsIdle /\ GraphInit /\ AudioIdle /\ ChatIdle
    /\ CallInit /\ CollectorInit /\ ManagerInit /\ PoolInit /\ SyncIdle /\ PipeIdle /\ ResizeIdle
    /\ DecodeIdle

SpecChat == InitChat /\ [][ChatNext]_vars

SpecMem == Init /\ [][MemNext]_vars

SpecTts == InitTts /\ [][TtsNext]_vars

\* The TTS pipeline with the configured frame duration of 60 ms.
SpecTtsOrder == Init /\ [][TtsNext]_vars

\* The steps of the TTS consumer, of SendTTSAudio and of its two goroutines, and
\* the provider closing its channel: goroutines that run whenever they can.
\* Pushing a sentence, an abort, the clock and the provider's frames are inputs.
TtsProgress ==
    \/ PopItem
    \/ \E ok \in BOOLEAN : Synthesize(ok)
    \/ ProviderClose
    \/ \E ok \in BOOLEAN : SendSentenceStart(ok)
    \/ SendTTSAudioStart
    \/ SendTTSAudioRecv
    \/ SendTTSAudioClosed
    \/ SendTTSAudioCtxDone
    \/ ProcessFlowControl
    \/ MetaHumanRecv
    \/ MetaHumanReturn
    \/ SendTTSAudioReturn
    \/ \E ok \in BOOLEAN : SendSentenceEnd(ok)

SpecTtsFair == InitTts /\ [][TtsNext]_vars /\ WF_vars(TtsProgress)

\* Bound on the number of frames the provider produces for one long sentence:
\* one more than the fan-out channels hold.
LongSentenceFrames == 1001

\* The TTS provider puts the next opus frame of a long sentence on the
\* sentence's channel, one frame at a time.
ProviderProduceLong ==
    /\ audioChan.open /\ ~audioChan.closed
    /\ audioChan.buf = <<>>
    /\ audioChan.produced < LongSentenceFrames
    /\ audioChan' = [audioChan EXCEPT !.buf = Append(@, audioChan.produced + 1),
                                      !.produced = @ + 1]
    /\ UNCHANGED <<frameDuration, now, ctxCancelled, ttsPushed, ttsQueue, tts, flowControlChan,
                   metaAudioChan, flowControl, metaHuman, sentence, clientLog>>
    /\ UNCHANGED nonTtsVars

\* One long sentence goes through handleTts and SendTTSAudio: the clock does
\* not move, nothing aborts, every send to the client succeeds, and the
\* digital-human goroutine returns without reading (no redis client).
TtsLongNext ==
    \/ ttsPushed = 0 /\ PushSentence
    \/ PopItem
    \/ Synthesize(TRUE)
    \/ ProviderProduceLong
    \/ audioChan.produced = LongSentenceFrames /\ ProviderClose
    \/ SendSentenceStart(TRUE)
    \/ SendTTSAudioStart
    \/ SendTTSAudioRecv
    \/ SendTTSAudioClosed
    \/ ProcessFlowControl
    \/ MetaHumanReturn
    \/ SendTTSAudioReturn
    \/ SendSentenceEnd(TRUE)

SpecTtsLong == Init /\ [][TtsLongNext]_vars

\* The TTS pipeline and one handleTextResponse call; the caller, once in its
\* select, and its timer go on.
SpecSync ==
    Init /\ [][SyncNext]_vars /\ WF_vars(SelectReturn) /\ WF_vars(SyncTick)

InitPipe ==
    /\ MemInit /\ TtsIdle /\ GraphInit /\ AudioIdle /\ ChatIdle
    /\ CallIdle /\ CollectorInit /\ ManagerInit /\ PoolInit /\ SyncIdle /\ PipeInit /\ ResizeIdle
    /\ DecodeIdle

\* The post-handler runs whenever it can, and so does the node after it.
SpecPipe == InitPipe /\ [][PipeNext]_vars /\ WF_vars(PipeProgress)

SpecResize == Init /\ [][ResizeNext]_vars

SpecPreRoll == InitAudio /\ [][PreRollNext]_vars

\* The session speaks in auto mode; the decode activity runs whenever it can.
InitDecode == InitAudio /\ scenario = "speech" /\ listenMode = "auto"

SpecDecode == InitDecode /\ [][DecodeNext]_vars /\ WF_vars(DecodeProgress)

SpecGraph == Init /\ [][GraphNext]_vars

SpecCollector == Init /\ [][CollectorNext]_vars

\* Every activity is a goroutine that reaches its select again: it takes the
\* case of a cancelled context when that case is ready.
SpecManager ==
    Init /\ [][ManagerNext]_vars /\ \A a \in Activities : WF_vars(ObserveDone(a))

SpecPool == Init /\ [][PoolNext]_vars

\* Functions of the session applied to arguments drawn from bounded sets.
SpecCalls == InitCalls /\ [][CallNext]_vars

\* The decode activity is a goroutine of its own: it is scheduled as long as
\* a frame is waiting in the channel.
SpecAudio == InitAudio /\ [][AudioNext]_vars /\ WF_vars(Decode)

Spec == SpecMem

----------------------------------------------------------------------------
(* Claims about the conversation memory *)

SeqNumsOf(sid) ==
    {messageRows[i].sequenceNum :
        i \in {j \in 1..Len(messageRows) : messageRows[j].sessionID = sid}}

RowCountOf(sid) ==
    Cardinality({j \in 1..Len(messageRows) : messageRows[j].sessionID = sid})

\* C1: for every session the sequence numbers of the persisted messages are
\* pairwise distinct and are exactly 1..n, n the number of persisted messages
\* of the session, whatever the interleaving of the pool's AddMessage calls.
C1_SequenceContiguous ==
    \A sid \in SessionIDs :
        /\ \A i, j \in 1..Len(messageRows) :
              (i # j /\ messageRows[i].sessionID = sid /\ messageRows[j].sessionID = sid)
                  => messageRows[i].sequenceNum # messageRows[j].sequenceNum
        /\ SeqNumsOf(sid) = 1..RowCountOf(sid)

\* C15: within a session the persisted messages carry sequence numbers in the
\* order their add_message events were published: a message published earlier
\* never has a higher sequence number than one published later, whatever the
\* scheduling of the pool workers.
C15_PublishOrder ==
    \A i, j \in 1..Len(messageRows) :
        (/\ messageRows[i].sessionID = messageRows[j].sessionID
         /\ messageRows[i].msg < messageRows[j].msg)
            => messageRows[i].sequenceNum <= messageRows[j].sequenceNum

\* C16: appending the same message again for a session is a no-op on the
\* store: no two rows of a session hold the same message.
C16_AtMostOnce ==
    \A i, j \in 1..Len(messageRows) :
        (/\ i # j
         /\ messageRows[i].sessionID = messageRows[j].sessionID
         /\ messageRows[i].deviceID = messageRows[j].deviceID)
            => messageRows[i].content # messageRows[j].content

----------------------------------------------------------------------------
(* Outbound audio (C2, C6, C7, C8)                                           *)

\* What the client was sent for sentence s, in order.
LogOf(s) == SelectSeq(clientLog, LAMBDA e : e.sentence = s)

\* The opus frames written to the client for sentence s, in order.
AudioFramesOf(s) ==
    LET a == SelectSeq(clientLog, LAMBDA e : e.sentence = s /\ e.kind = "audio")
    IN  [i \in 1..Len(a) |-> a[i].frame]

\* SendTTSAudio has returned for sentence s.
SendTTSAudioReturned(s) ==
    \/ tts.cur = s /\ tts.pc = "sendEnd"
    \/ sentence[s].result # "none" /\ (sentence[s].sawClose \/ sentence[s].sawCancel)

\* C2: when the context is not cancelled, the frames SendTTSAudio received from
\* the sentence's channel before it was closed are eventually written to the
\* client, each exactly once and in the order received.
C2_FramesReachClient ==
    \A s \in Sentences :
        []((sentence[s].sawClose /\ ~ctxCancelled)
              => <>(ctxCancelled \/ AudioFramesOf(s) = sentence[s].received))

\* C6: nothing written to the client once the run's context is cancelled is an
\* opus frame, a sentence_start or a sentence_end.
C6_NothingAfterAbort ==
    \A i \in 1..Len(clientLog) :
        clientLog[i].cancelled
            => clientLog[i].kind \notin {"audio", "sentence_start", "sentence_end"}

\* C7: for a sentence whose synthesis succeeded and whose handling is over (its
\* channel was closed, no cancellation, no failed send), the client was sent
\* one sentence_start, then the sentence's frames, then one sentence_end.
C7_SentenceFraming ==
    \A s \in Sentences :
        (sentence[s].synthOk /\ sentence[s].sawClose /\ sentence[s].result = "ok")
            => /\ Len(LogOf(s)) = Len(sentence[s].received) + 2
               /\ LET l == LogOf(s)
                  IN  /\ l[1].kind = "sentence_start"
                      /\ l[Len(l)].kind = "sentence_end"
                      /\ \A n \in 1..Len(sentence[s].received) :
                            l[n + 1].kind = "audio" /\ l[n + 1].frame = sentence[s].received[n]

\* C8: once SendTTSAudio has returned for a sentence whose channel was closed,
\* its n-th frame (n counted from 0) has been written, and not before
\* startTime + (n - cacheFrames) * frameDuration when n >= cacheFrames.
C8_Pacing ==
    \A s \in Sentences :
        (sentence[s].sawClose /\ SendTTSAudioReturned(s))
            => \A n \in 0..(Len(sentence[s].received) - 1) :
                  \E i \in 1..Len(clientLog) :
                      /\ clientLog[i].kind = "audio" /\ clientLog[i].sentence = s
                      /\ clientLog[i].frame = sentence[s].received[n + 1]
                      /\ n >= CacheFrameCount
                            => clientLog[i].at >= sentence[s].startTime
                                                   + (n - CacheFrameCount) * frameDuration

----------------------------------------------------------------------------
(* The dialogue graph (C3, C4, C5)                                           *)

\* The executions of tool_call_result that produced a [STOP] tool result.
StopProducedAt ==
    {i \in 1..Len(toolResults) :
        \E k \in 1..Len(toolResults[i].out) : IsStopResult(toolResults[i].out[k])}

\* C3: once tool_call_result has produced a tool result whose content starts
\* with [STOP], the run only goes through the branch to END: the LLM is not
\* invoked again.
C3_StopEndsRun ==
    \A i \in StopProducedAt :
        /\ Len(llmInputs) = toolResults[i].llmCalls
        /\ graph.pc \in {"branch2", "END", "done"}

\* A run that produced a [STOP] result is over.
C3_Witness == StopProducedAt # {} /\ graph.pc = "done"

\* C4: in a finished run whose first LLM response carried exactly one tool
\* call, whose tool result is not marked [STOP], and whose second response (if
\* any) carried no tool call, the LLM was invoked exactly twice and the input
\* of the second invocation holds the tool result after the assistant's
\* tool-call message.
C4_ToolLoop ==
    (/\ graph.pc = "done" /\ ~graph.failed
     /\ Len(llmOutputs) >= 1 /\ Len(llmOutputs[1].toolCalls) = 1
     /\ Len(toolResults) >= 1
     /\ ~HasStopPrefix(toolResults[1].in[1].content)
     /\ 1 \notin StopProducedAt
     /\ Len(llmOutputs) >= 2 => llmOutputs[2].toolCalls = <<>>)
        => /\ Len(llmInputs) = 2
           /\ \E i, j \in 1..Len(llmInputs[2]) :
                 /\ i < j
                 /\ llmInputs[2][i] = [llmOutputs[1] EXCEPT !.role = "assistant"]
                 /\ llmInputs[2][j].role = "tool"
                 /\ llmInputs[2][j].content = toolResults[1].in[1].content

\* The positions of marker m among the markers sent by the callbacks.
MarkersAt(m) == {i \in 1..Len(graphLog) : graphLog[i] = m}

\* C5: in a finished run in which the model did not fail and no send failed,
\* the client was sent exactly one tts start and exactly one tts stop, the
\* start before the stop.
C5_OneStartOneStop ==
    (graph.pc = "done" /\ ~graph.failed /\ ~graph.sendFailed)
        => /\ Cardinality(MarkersAt("tts_start")) = 1
           /\ Cardinality(MarkersAt("tts_stop")) = 1
           /\ \A i \in MarkersAt("tts_start") : \A j \in MarkersAt("tts_stop") : i < j

RECURSIVE ContentOf(_)
\* The contents of the assistant deltas of a stream, concatenated in order.
ContentOf(deltas) ==
    IF deltas = <<>> THEN <<>>
    ELSE (IF Head(deltas).role = "assistant" THEN Head(deltas).content ELSE <<>>)
           \o ContentOf(Tail(deltas))

RECURSIVE ToolCallsOf(_)
\* The tool calls of the assistant deltas of a stream, in order.
ToolCallsOf(deltas) ==
    IF deltas = <<>> THEN <<>>
    ELSE (IF Head(deltas).role = "assistant" THEN Head(deltas).toolCalls ELSE <<>>)
           \o ToolCallsOf(Tail(deltas))

\* The history the last invocation of the model was given.
LastLlmInput == llmInputs[Len(llmInputs)]

\* The assistant message a stream amounts to.
AssistantMessageOf(deltas) == Msg("assistant", ContentOf(deltas), ToolCallsOf(deltas), "")

\* The last invocation of the model ended with an error of the stream or
\* with the cancellation of the context.
LastStreamAborted ==
    graph.pc \in {"error", "done"} /\ graph.failed /\ Len(llmOutputs) < Len(llmInputs)

----------------------------------------------------------------------------
(* Inbound audio (C9, C10)                                                   *)

\* The ids of the queued frames.
QueuedIds == [i \in 1..Len(opusAudioBuffer) |-> opusAudioBuffer[i].id]

C9_Bounded ==
    /\ Len(opusAudioBuffer) <= OpusAudioBufferCap
    /\ accepted = dequeued.count + Len(opusAudioBuffer)
    /\ \A i, j \in 1..Len(opusAudioBuffer) : i < j => QueuedIds[i] < QueuedIds[j]
    /\ \A i \in 1..Len(opusAudioBuffer) : dequeued.last < QueuedIds[i]
    /\ dequeued.count = 0 => accepted = IF pushed < OpusAudioBufferCap
                                         THEN pushed ELSE OpusAudioBufferCap

C9_Call ==
    pushed' = pushed + 1
        => IF Len(opusAudioBuffer) < OpusAudioBufferCap
           THEN /\ recvResult' = TRUE
                /\ Len(opusAudioBuffer') = Len(opusAudioBuffer) + 1
                /\ opusAudioBuffer'[Len(opusAudioBuffer')].id = pushed'
                /\ SubSeq(opusAudioBuffer', 1, Len(opusAudioBuffer)) = opusAudioBuffer
           ELSE /\ recvResult' = FALSE
                /\ opusAudioBuffer' = opusAudioBuffer

\* C9: a RecvAudio call queues the frame and returns true when fewer than 100
\* frames are queued, and returns false leaving the queue as it is when 100
\* are; the queue never holds more than 100 frames; the frames leave the queue
\* in the order they were accepted and none is lost; of a burst pushed before
\* anything is taken the first 100 are accepted; and every accepted frame is
\* taken by the decode activity in the end.
C9_RecvAudio ==
    /\ []C9_Bounded
    /\ [][C9_Call]_vars
    /\ []<>(opusAudioBuffer = <<>>)

\* A frame was refused on a full queue, and the queue has since been emptied
\* by the decode activity.
C9_Witness ==
    /\ pushed > accepted /\ accepted >= OpusAudioBufferCap
    /\ dequeued.count = accepted
    /\ opusAudioBuffer = <<>>

\* C10: in auto mode, for every frame duration, what was sent to ASR is the
\* ASR-feed buffer as it was at the first positive VAD window followed by
\* every frame decoded since, none skipped and none twice.  Stated for the
\* inputs whose frames are all voiced and whose utterance has not ended, where
\* every frame decoded after the first positive window is a frame of the
\* utterance, and at the moments no decoded frame is waiting for its window;
\* no VAD failure, no change of the listen mode.
C10_AsrGetsEveryFrame ==
    (/\ scenario = "speech" /\ listenMode = "auto"
     /\ allVoiced /\ ~vad.voiceStop /\ vad.byteBuffer = <<>>)
        => asrSent = utterance

----------------------------------------------------------------------------
(* Voice activity (C11, C12, C13, C14)                                       *)

\* C11: in auto mode (no VAD failure, no change of the listen mode) an
\* utterance is ended only if voice had started, the last evaluated VAD window
\* was negative and the silence threshold has elapsed since the last voice.
C11_UtteranceEnd ==
    (scenario = "speech" /\ listenMode = "auto" /\ vad.voiceStop)
        => /\ vad.haveVoice
           /\ vad.window.n >= 1 /\ ~vad.window.voice
           /\ audioNow - vad.haveVoiceLastTime >= SilenceThresholdTime

\* C12: a VAD window of N >= 1 frames of which k are reported active (a frame
\* whose VAD call fails is not) is voice exactly when k > N/2, that is 2k > N.
C12_StrictMajority ==
    vad.window.n >= 1
        => /\ vad.window.voice <=> 2 * vad.window.k > vad.window.n
           /\ vad.window.k <= vad.window.n - vad.window.errs

\* A tie over an even window, with a failed VAD call in it, was not voice.
C12_Witness ==
    /\ vad.window.n = 2 /\ vad.window.k = 1 /\ vad.window.errs = 1
    /\ ~vad.window.voice

\* C13: in the last iteration of the decode activity, a frame received in
\* manual or realtime mode was treated as voice without running VAD, and a
\* frame received in auto mode was handed to VAD.
C13_ListenModeOverrides ==
    /\ vad.iter.mode \in {"manual", "realtime"} => vad.iter.voice /\ ~vad.iter.vadRan
    /\ (vad.iter.mode = "auto" /\ ~vad.iter.initFailed) => vad.iter.vadRan

\* C14: a frame decoded in an iteration in which no VAD instance could be
\* obtained is treated as voice: it has been forwarded to ASR.
C14_VadFailureBypass ==
    vad.iter.initFailed
        => /\ vad.iter.voice
           /\ \E i \in 1..Len(asrSent) : asrSent[i] = vad.iter.frame

----------------------------------------------------------------------------
(* Text messages and responses (C17, C18, C19, C20)                          *)

\* The tts messages of the given state that run r passed to SendMsg.
TtsMessagesOf(r, state) ==
    {i \in 1..Len(chatLog) :
        chatLog[i].run = r /\ chatLog[i].type = "tts" /\ chatLog[i].state = state}

\* The runs of the session that are delivering a response: tts start was
\* sent and HandleLLMResponse has not returned.
ActiveRuns == {r \in DOMAIN runs : runs[r].pc # "done" /\ TtsMessagesOf(r, "start") # {}}

\* C17: at any time at most one run of the session is turning an LLM response
\* into TTS markers and frames; a text trigger that arrives during a response
\* starts no run beside it.
C17_OneActiveRun == Cardinality(ActiveRuns) <= 1

\* C18: a response that ends because the TTS or the LLM provider failed, after
\* tts start was sent for it, has had a tts stop sent as well.
C18_StopAfterFailure ==
    \A r \in DOMAIN runs :
        (/\ runs[r].result \in {"ttsFailed", "llmClosed"}
         /\ TtsMessagesOf(r, "start") # {})
            => TtsMessagesOf(r, "stop") # {}

\* The assistant messages run r appended to the memory.
AssistantMessagesOf(r) ==
    {i \in 1..Len(chatMemory) : chatMemory[i].role = "assistant" /\ chatMemory[i].run = r}

RECURSIVE ResponseText(_)
\* The texts of the sentences of a response, concatenated in order.
ResponseText(stream) ==
    IF stream = <<>> THEN <<>> ELSE Head(stream).text \o ResponseText(Tail(stream))

\* C19: a response that completes has exactly one assistant message in the
\* memory, whose content is the concatenation of all its sentences; an
\* assistant message is appended only once the last sentence was received;
\* a response that failed, or that was aborted before its last sentence was
\* received, has none.
C19_AssistantMessage ==
    \A r \in DOMAIN runs :
        /\ runs[r].result = "ok" =>
              /\ Cardinality(AssistantMessagesOf(r)) = 1
              /\ \A i \in AssistantMessagesOf(r) :
                    chatMemory[i].content = ResponseText(runs[r].stream)
        /\ AssistantMessagesOf(r) # {} => runs[r].next > Len(runs[r].stream)
        /\ (\/ runs[r].result \in {"ttsFailed", "llmClosed", "sendFailed", "cancelled"}
            \/ (runs[r].abortedAt # 0 /\ runs[r].abortedAt <= Len(runs[r].stream)))
              => AssistantMessagesOf(r) = {}

RECURSIVE Stripped(_)
\* text without its punctuation and whitespace.
Stripped(text) ==
    IF text = <<>> THEN <<>>
    ELSE IF Head(text) \in Punctuation THEN Stripped(Tail(text))
    ELSE <<Head(text)>> \o Stripped(Tail(text))

----------------------------------------------------------------------------
(* Claims about the functions of the session *)

BranchReturned == fnCall.fn = "afterToolCallBranchCondition" /\ fnResult.done

\* The content begins with the six characters of the mark.
StartsWithStop(content) ==
    Len(content) >= 6 /\ \A k \in 1..6 : content[k] = StopMark[k]

MarkedResults(input) ==
    {i \in 1..Len(input) : input[i].role = "tool" /\ StartsWithStop(input[i].content)}

UnmarkedResults(input) ==
    {i \in 1..Len(input) : input[i].role = "tool" /\ ~StartsWithStop(input[i].content)}

WithToolCalls(input) == {i \in 1..Len(input) : Len(input[i].toolCalls) > 0}

\* C28, as stated: the branch after ToolCallResult returns the LLM node if and
\* only if its input contains a message that carries tool calls or a tool
\* result without the [STOP] prefix, and END otherwise.
C28_LlmIffUnmarked ==
    BranchReturned =>
        /\ fnResult.value \in {"llm", "END"}
        /\ fnResult.value = "llm"
              <=> (WithToolCalls(fnCall.input) \cup UnmarkedResults(fnCall.input)) # {}

\* C28, amended: the branch after ToolCallResult returns END whenever its input
\* contains a tool result with the [STOP] prefix; on an input without one it
\* returns the LLM node if and only if the input contains a message that
\* carries tool calls or is a tool result, and END otherwise.
C28_LlmIffNoStop ==
    BranchReturned =>
        /\ fnResult.value \in {"llm", "END"}
        /\ fnResult.value = "llm"
              <=> /\ MarkedResults(fnCall.input) = {}
                  /\ (WithToolCalls(fnCall.input) \cup UnmarkedResults(fnCall.input)) # {}

\* The branch answered END on a list that mixes an unmarked tool result, a
\* message with tool calls and a marked tool result.
C28_Witness ==
    /\ BranchReturned
    /\ fnResult.value = "END"
    /\ Len(fnCall.input) = 3
    /\ 1 \in UnmarkedResults(fnCall.input)
    /\ 2 \in WithToolCalls(fnCall.input)
    /\ 3 \in MarkedResults(fnCall.input)

\* The rows of the session GetMessages was asked for.
AskedRows ==
    {i \in 1..Len(fnCall.table) :
        fnCall.table[i].sessionID = parseAgentID(fnCall.agentID).sessionID}

SeqOf(message) == fnCall.table[message.content].sequenceNum

\* C24: GetMessages(agentID, N) returns the min(N, total) messages of the
\* session that have the largest sequence numbers, ordered by ascending
\* sequence number.
C24_NewestAscending ==
    (fnCall.fn = "GetMessages" /\ fnResult.done) =>
        LET result == fnResult.value
            total == Cardinality(AskedRows)
            returned == {result[j].content : j \in 1..Len(result)}
        IN  /\ Len(result) = (IF fnCall.count < total THEN fnCall.count ELSE total)
            /\ returned \subseteq AskedRows
            /\ Cardinality(returned) = Len(result)
            /\ \A i \in AskedRows \ returned :
                  \A j \in 1..Len(result) : fnCall.table[i].sequenceNum <= SeqOf(result[j])
            /\ \A j, k \in 1..Len(result) : j < k => SeqOf(result[j]) <= SeqOf(result[k])

\* Of the three rows of a session, inserted out of order, the two with the
\* largest sequence numbers were returned, the older one first.
C24_Witness ==
    /\ fnCall.fn = "GetMessages"
    /\ fnResult.done
    /\ fnCall.count = 2
    /\ Cardinality(AskedRows) = 3
    /\ fnCall.table[1].sequenceNum = 3
    /\ fnCall.table[2].sequenceNum = 1
    /\ fnCall.table[3].sequenceNum = 2
    /\ fnResult.value = <<[content |-> 3], [content |-> 1]>>

RECURSIVE JsonScan(_, _, _)
\* The text from piece i on continues a JSON object whose values are strings
\* or literals; st is what the reader expects next.
JsonScan(text, i, st) ==
    IF i > Len(text)
    THEN st = "done"
    ELSE LET t == text[i]
         IN  CASE st = "open" -> t = "{" /\ JsonScan(text, i + 1, "key")
               [] st = "key" -> t = Quote /\ JsonScan(text, i + 1, "inkey")
               [] st \in {"inkey", "invalue"} ->
                     IF t = Quote
                     THEN JsonScan(text, i + 1, IF st = "inkey" THEN "colon" ELSE "next")
                     ELSE IF t = Backslash
                          THEN /\ i + 1 <= Len(text)
                               /\ text[i + 1] \in {Quote, Backslash}
                               /\ JsonScan(text, i + 2, st)
                          ELSE JsonScan(text, i + 1, st)
               [] st = "colon" -> t = ":" /\ JsonScan(text, i + 1, "value")
               [] st = "value" ->
                     IF t = Quote
                     THEN JsonScan(text, i + 1, "invalue")
                     ELSE t \in {"true", "false"} /\ JsonScan(text, i + 1, "next")
               [] st = "next" ->
                     IF t = "," THEN JsonScan(text, i + 1, "key")
                     ELSE t = "}" /\ JsonScan(text, i + 1, "done")
               [] st = "done" -> FALSE

\* The text is a well-formed JSON object that reports a failure.
WellFormedErrorObject(text) ==
    /\ JsonScan(text, 1, "open")
    /\ Len(text) >= 12
    /\ SubSeq(text, 1, 11)
          = <<"{", Quote, "success", Quote, ":", "false", ",", Quote, "error", Quote, ":">>

WeatherReturned == fnCall.fn \in WeatherTools /\ fnResult.done

SessionHasCity == fnCall.locationCity \notin {"", UnknownCity}

\* C25: a weather tool called with an empty city asks about the session's
\* resolved city if the session has one; if it has none, it returns a
\* well-formed JSON error object with a nil error and does not call the
\* weather API; a failure of the weather API is likewise returned as a JSON
\* error object with a nil error.
C25_WeatherErrors ==
    WeatherReturned =>
        LET result == fnResult.value
        IN  /\ (fnCall.city = "" /\ SessionHasCity) => result.asked = <<fnCall.locationCity>>
            /\ (fnCall.city = "" /\ ~SessionHasCity) =>
                  /\ WellFormedErrorObject(result.text)
                  /\ result.err = "nil"
                  /\ result.asked = <<>>
            /\ (result.asked # <<>> /\ fnCall.outcome # "ok") =>
                  /\ WellFormedErrorObject(result.text)
                  /\ result.err = "nil"

----------------------------------------------------------------------------
(* Claims about the audio collector *)

\* The log entry ends what a side has collected: a get of that side, or a Clear.
EndsCollection(entry, side) ==
    entry.op = "clear" \/ (entry.op = "get" /\ entry.side = side)

\* The last entry before position p that ends the side's collection, 0 if none.
LastBoundary(side, p) ==
    LET ends == {q \in 1..(p - 1) : EndsCollection(collectorLog[q], side)}
    IN  IF ends = {} THEN 0 ELSE CHOOSE q \in ends : \A o \in ends : o <= q

RECURSIVE AddedBetween(_, _, _)
\* The bytes added to the side by the log entries q+1 .. p-1, in log order.
AddedBetween(side, q, p) ==
    IF p - 1 <= q
    THEN <<>>
    ELSE LET entry == collectorLog[p - 1]
         IN  AddedBetween(side, q, p - 1)
                 \o (IF entry.op = "add" /\ entry.side = side THEN entry.data ELSE <<>>)

\* The position of the get of Save call k in the log.
GetOf(k) == CHOOSE p \in 1..Len(collectorLog) : collectorLog[p].op = "get" /\ collectorLog[p].call = k

\* What Save call k is to publish: the bytes added to its side since the
\* side's previous flush or Clear.
DueTo(k) == AddedBetween(saveCalls[k].side, LastBoundary(saveCalls[k].side, GetOf(k)), GetOf(k))

EventsOf(k) == {e \in 1..Len(saveEvents) : saveEvents[e].call = k}

\* The places of the published events that hold byte b.
PublishedAt(b) ==
    {<<e, i>> \in (1..Len(saveEvents)) \X (1..bytesAdded) :
        i <= Len(saveEvents[e].audioData) /\ saveEvents[e].audioData[i] = b}

\* C21: a Save call publishes one save_audio event carrying exactly the bytes
\* added to its side since that side's previous flush or Clear, in the order
\* they were added, and none when that is empty; after the flush the side's
\* buffer holds only what was added since and the other side's buffer is as
\* it was; no added byte is published twice.
C21_SaveAudio ==
    /\ \A k \in DOMAIN saveCalls :
          /\ \A e \in EventsOf(k) :
                /\ saveEvents[e].sourceType = saveCalls[k].side
                /\ saveEvents[e].audioData = DueTo(k)
          /\ Cardinality(EventsOf(k)) <= 1
          /\ saveCalls[k].pc = "done" =>
                Cardinality(EventsOf(k)) = (IF DueTo(k) = <<>> THEN 0 ELSE 1)
    /\ \A side \in Sides :
          audioData[side]
              = AddedBetween(side, LastBoundary(side, Len(collectorLog) + 1), Len(collectorLog) + 1)
    /\ \A b \in 1..bytesAdded : Cardinality(PublishedAt(b)) <= 1

\* A byte was added to the user side and two to the tts side; the first
\* SaveTTSAudio published the two in order and left the user side's byte in
\* its buffer, and a second SaveTTSAudio found nothing and published nothing.
C21_Witness ==
    /\ Len(saveCalls) = 2
    /\ \A k \in 1..2 : saveCalls[k].side = "tts" /\ saveCalls[k].pc = "done"
    /\ Len(saveEvents) = 1
    /\ saveEvents[1].call = 1
    /\ Len(saveEvents[1].audioData) = 2
    /\ saveEvents[1].audioData[1] < saveEvents[1].audioData[2]
    /\ EventsOf(2) = {}
    /\ Len(audioData["user"]) = 1
    /\ audioData["tts"] = <<>>

----------------------------------------------------------------------------
(* Claims about the session manager *)

FirstClose == IF closeLog = <<>> THEN "none" ELSE closeLog[1]

\* What closing the session comes to: the session-level resources are closed,
\* the manager's context and every context made from it are done, and no
\* activity under them is still running.
SessionEnded ==
    /\ sessionResources = "closed"
    /\ \A c \in Contexts : ctxDone[c]
    /\ \A a \in Activities : activity[a] # "running"

\* C22: a transport close (OnClose) comes to the same as Close(): the
\* session-level resources are closed and the manager's context is cancelled,
\* and every activity under that context observes the cancellation.
C22_OnCloseAsClose ==
    /\ (FirstClose = "OnClose") ~> SessionEnded
    /\ (FirstClose = "Close") ~> SessionEnded
    /\ [](FirstClose # "none" => ctxDone["manager"])

----------------------------------------------------------------------------
(* Claims about the pool of VAD instances *)

\* C29: whatever the interleaving of AcquireVAD and ReleaseVAD calls, a
\* repeated or concurrent release of the same instance included, no instance
\* is held by two acquirers at the same time and no instance is twice in the
\* available queue.
C29_MutuallyExclusive ==
    /\ \A s, t \in PoolSessions :
          (s # t /\ acquirer[s].vad # 0) => acquirer[s].vad # acquirer[t].vad
    /\ \A i, j \in 1..Len(availableVADs) : i # j => availableVADs[i] # availableVADs[j]

\* The step is the session's AcquireVAD returning an error.
ReturnsError(s) ==
    /\ acquirer'[s] # acquirer[s]
    /\ acquirer[s].pc \in {"idle", "select"}
    /\ acquirer'[s].pc = "idle"
    /\ acquirer'[s].vad = acquirer[s].vad
    /\ acquirer'[s].result \in {"error", "timeout"}

\* C30: AcquireVAD returns an instance, at once, whenever one is available in
\* the pool; it returns the timeout error only when none was available and
\* acquireTimeout has passed without one, and then it allocates nothing and
\* leaves the pool as it was; on a pool that is not initialized it returns an
\* error at once.
C30_AcquireOutcome ==
    /\ [](\A s \in PoolSessions :
            /\ acquirer[s].atCall = "available" =>
                  acquirer[s].result = "ok" /\ acquirer[s].waited = 0
            /\ acquirer[s].atCall = "uninitialized" =>
                  acquirer[s].result = "error" /\ acquirer[s].waited = 0
            /\ acquirer[s].result = "timeout" =>
                  acquirer[s].atCall = "empty" /\ acquirer[s].waited >= AcquireTimeout)
    /\ [][\A s \in PoolSessions :
            ReturnsError(s) =>
                /\ availableVADs' = availableVADs
                /\ allocatedVADs' = allocatedVADs
                /\ poolInitialized' = poolInitialized
                /\ acquirer'[s].vad = 0]_vars

\* Both instances are allocated to two sessions, and the third got the
\* timeout error after waiting for acquireTimeout.
C30_Witness ==
    /\ allocatedVADs = VADs
    /\ availableVADs = <<>>
    /\ \E s \in PoolSessions :
          /\ acquirer[s].result = "timeout"
          /\ acquirer[s].waited = AcquireTimeout
          /\ \A t \in PoolSessions \ {s} : acquirer[t].vad # 0 /\ acquirer[t].result = "ok"

\* The frames written to the client as audio of sentence s.
AudioWritten(s) ==
    { clientLog[i].frame : i \in { j \in DOMAIN clientLog :
                                     clientLog[j].kind = "audio" /\ clientLog[j].sentence = s } }

\* The frames waiting in a channel.
Queued(ch) == { ch.buf[i] : i \in DOMAIN ch.buf }

\* C31: no frame the ingestion loop of SendTTSAudio received is dropped for
\* the client, also when the pacer channel was full: it has been written to the
\* client or is waiting in the pacer channel (only the digital-human channel may
\* skip a frame).
C31_PacerKeepsEveryFrame ==
    tts.pc = "loop" =>
        \A i \in DOMAIN sentence[tts.cur].received :
            LET frame == sentence[tts.cur].received[i]
            IN  frame \in AudioWritten(tts.cur) \cup Queued(flowControlChan)


\* A handleTextResponse call returns in this step.
SyncReturns == syncCall.pc # "returned" /\ syncCall'.pc = "returned"

\* C32: a synchronous handleTextResponse call with a non-empty text returns nil
\* only when the consumer is done with the queued sentence, returns an error
\* when the context is cancelled and the sentence is not done, returns the
\* timeout error when neither holds, which happens only after 30 s, and it does
\* return; an asynchronous call returns nil in the step that queues the sentence;
\* an empty text is not queued.
C32_SyncWaitsForSentence ==
    /\ [][SyncReturns =>
            /\ (syncCall'.isSync /\ syncCall'.text # "") =>
                  /\ syncCall'.result = "nil" => sentence[syncCall.item].result # "none"
                  /\ (ctxCancelled /\ sentence[syncCall.item].result = "none")
                        => syncCall'.result \in {"cancelled", "timeout"}
                  /\ (~ctxCancelled /\ sentence[syncCall.item].result = "none")
                        => syncCall'.result = "timeout" /\ syncCall.waited >= SyncTimeoutMs
            /\ (~syncCall'.isSync /\ syncCall'.text # "") =>
                  /\ syncCall'.result = "nil"
                  /\ ttsQueue' = Append(ttsQueue, syncCall'.item)
            /\ syncCall'.text = "" =>
                  /\ syncCall'.result = "nil"
                  /\ ttsQueue' = ttsQueue /\ ttsPushed' = ttsPushed]_vars
    /\ (syncCall.pc = "select") ~> (syncCall.pc = "returned")

C32_Witness ==
    /\ syncCall.pc = "returned" /\ syncCall.isSync /\ syncCall.text # ""
    /\ syncCall.result = "nil"
    /\ sentence[syncCall.item].result = "ok"
    /\ sentence[syncCall.item].received # <<>>


\* C40: a synchronous handleTextResponse call whose sentence handleTts failed
\* on (provider error, or a failed send of sentence_start or sentence_end) does
\* not return nil.
C40_SyncReturnsTtsError ==
    (syncCall.pc = "returned" /\ syncCall.isSync /\ syncCall.text # ""
        /\ sentence[syncCall.item].result = "err")
    => syncCall.result # "nil"


\* C33: the stream post-handler of the LLM node returns for every finite LLM
\* stream, whatever its number of deltas, and once it has returned its reader
\* the deltas it received are what the next node has read and can still read,
\* in the order received.
C33_PostHandlerReturns ==
    /\ <>(postHandler.pc = "returned")
    /\ [](postHandler.result = "reader"
            => downstreamRead \o outputPipe.buf = postHandler.received)


\* No AddMessage call is waiting or running.
NoAddMessageRunning == jobQueue = <<>> /\ \A w \in Workers : worker[w].pc = "idle"

\* C38: AddMessage calls that run concurrently for a session that does not
\* exist yet all persist their message: when the calls have ended, one session
\* row exists and the message of every call is stored; none has failed because
\* another one created the session first.
C38_ConcurrentFirstMessages ==
    NoAddMessageRunning =>
        \A m \in 1..published : \E i \in 1..Len(messageRows) : messageRows[i].msg = m


\* GetMessages(agentID): the stored rows it selects from, WHERE session_id is
\* the identifier's part after its last ':'.
SelectedFor(agentID) ==
    {i \in 1..Len(messageRows) : messageRows[i].sessionID = parseAgentID(agentID).sessionID}

\* The stored rows AddMessage appended under agentID: it stamps them with the
\* two parts of the identifier.
AppendedUnder(agentID) ==
    {i \in 1..Len(messageRows) :
        /\ messageRows[i].sessionID = parseAgentID(agentID).sessionID
        /\ messageRows[i].deviceID = parseAgentID(agentID).deviceID}

\* C34: stored messages are isolated per identifier: for distinct identifiers
\* a and b, GetMessages(a) selects no message appended under b, and the
\* sequence numbers assigned under a are those a alone would get (1, 2, ...),
\* whatever was appended under b.
C34_IsolatedPerIdentifier ==
    \A a \in AgentIDs : \A b \in AgentIDs \ {a} :
        /\ SelectedFor(a) \cap AppendedUnder(b) = {}
        /\ NoAddMessageRunning =>
              \A i \in AppendedUnder(a) :
                  messageRows[i].sequenceNum <= Cardinality(AppendedUnder(a))


\* No AcquireVAD or ReleaseVAD call is in progress.
NoPoolCallRunning == \A s \in PoolSessions : acquirer[s].pc = "idle"

\* The number of places the instance has in the channel of available ones.
TimesAvailable(inst) == Cardinality({i \in 1..Len(availableVADs) : availableVADs[i] = inst})

\* The step is the session's ReleaseVAD of nothing the pool has allocated.
ReleasesUnallocated(s) ==
    /\ acquirer[s].pc = "idle"
    /\ acquirer[s].ref \notin allocatedVADs
    /\ acquirer[s].vad # 0
    /\ acquirer'[s] = [acquirer[s] EXCEPT !.vad = 0]

\* C36: while the pool is initialized (and not resized), whenever no
\* AcquireVAD or ReleaseVAD call is in progress the available and the allocated
\* instances are maxSize together and every instance is in exactly one of the
\* two sets; an AcquireVAD that times out and a ReleaseVAD of an instance the
\* pool has not allocated change neither set.
C36_PoolConservation ==
    /\ []((poolInitialized /\ NoPoolCallRunning) =>
            /\ Len(availableVADs) + Cardinality(allocatedVADs) = PoolMaxSize
            /\ \A inst \in VADs :
                  TimesAvailable(inst) + (IF inst \in allocatedVADs THEN 1 ELSE 0) = 1)
    /\ [][\A s \in PoolSessions :
            (ReleasesUnallocated(s) \/ (ReturnsError(s) /\ acquirer'[s].result = "timeout"))
                => availableVADs' = availableVADs /\ allocatedVADs' = allocatedVADs]_vars


\* C35: after Resize(n) has returned nil the pool holds n instances: the
\* available and the allocated ones are never more than n together, and when
\* none is allocated n are available, so that n AcquireVAD calls get one each
\* without waiting.
C35_ResizeSetsTotal ==
    (resized # 0 /\ resizer.pc = "idle") =>
        /\ Len(availableVADs) + Cardinality(allocatedVADs) <= resized
        /\ (allocatedVADs = {} /\ NoPoolCallRunning) => Len(availableVADs) = resized


\* The session is idle in auto mode: VAD runs and no voice is detected.
IdleInAuto == listenMode = "auto" /\ ~vad.skipVad /\ ~vad.haveVoice

\* C39: in auto mode, while the session is idle the ASR-feed (pre-roll)
\* buffer holds at most 3 * W + 1 frames, W the number of frames of a VAD
\* window, and it holds no audio from before the end of the previous
\* utterance: every frame in it is newer than every frame already sent to ASR,
\* so that the flush at the start of the next utterance sends none again.
C39_PreRollBounded ==
    IdleInAuto =>
        /\ Len(vad.asrAudioBuffer) <= 3 * VadNeedGetCount + 1
        /\ \A i \in 1..Len(vad.asrAudioBuffer) : \A j \in 1..Len(asrSent) :
              vad.asrAudioBuffer[i] > asrSent[j]


\* C37: the decode/VAD activity terminates once the channel of opus frames is
\* closed or the session context is cancelled, whatever the voice-stop flag.
C37_DecodeTerminates ==
    (opusClosed \/ sessionCtxDone) ~> (decodeLoop = "returned")


====
